---------------------------- MODULE Spec2Model ----------------------------
(***************************************************************************)
(* Model of the recommendation impact-estimation and aggregation pipeline  *)
(* of the ads dashboard: the impact formulas (impact_models.py), the       *)
(* total-impact aggregator (calculate_total_impact.py) and the Facebook    *)
(* recommendation generator (create_facebook_insights.py).                 *)
(*                                                                         *)
(* Python numbers are modelled as exact rationals [n, d] in lowest terms   *)
(* with d > 0; None is the record with d = 0.  A Python dict is a TLA+     *)
(* function over the keys it holds, so d.get(k, default) is a domain test. *)
(* The human-readable 'formula' and 'assumptions' texts are left out of    *)
(* the result dicts; every numeric and categorical key is kept.            *)
(***************************************************************************)
EXTENDS Integers, Sequences, FiniteSets, TLC

VARIABLES
    impactCall,      \* the impact-model call last made: function name and arguments
    impactResult,    \* the dict it returned
    aggRecs,         \* aggregate_total_benefits: the recommendations argument
    aggLevel,        \* aggregate_total_benefits: the confidence_level argument
    aggTotals,       \* aggregate_total_benefits: the totals dict returned
    genInput,        \* generate_recommendations: the analyses passed in
    genPc,           \* generate_recommendations: "idle" before the call, "returned" after
    recommendations, \* generate_recommendations: the list returned
    anCall,          \* the analyzer call last made: function name and arguments
    anResult,        \* the dict it returned
    spawned,         \* weekly_report_job: the invocations spawned and not yet started
    weeklyJobs,      \* weekly_report_job: how many times the schedule has fired
    tmpFiles,        \* generate_client_report: the dashboard files in each worker's /tmp
    reportClock,     \* generate_client_report: datetime.now(), in seconds
    reportPc,        \* generate_client_report: where each worker's invocation stands
    reportRun,       \* generate_client_report: each invocation's client and own dashboard
    attached,        \* generate_client_report: the dashboards read for the emails sent
    fbAccount,       \* Facebook executor: the ad account's campaign, ad set and ad
    fbCall,          \* Facebook executor: the recommendation last applied and its dry_run
    fbLog,           \* Facebook executor: the api_get and api_update calls made so far
    fbResult,        \* Facebook executor: the result dict of the last call
    gaCall,          \* Google executor: the recommendations file, approved ids and dry_run
    gaLog,           \* Google executor: the client creations and mutate operations made
    gaResults,       \* Google executor: the results list returned
    jobPc,           \* weekly_report_job: "idle", "waiting" in the wait loop, "done"
    jobTesting,      \* weekly_report_job: TESTING_MODE
    jobClients,      \* weekly_report_job: clients.json
    jobResults,      \* weekly_report_job: the results list
    jobNext,         \* weekly_report_job: the place of the wait loop in results
    jobSuccesses,    \* weekly_report_job: the successes list
    jobErrors,       \* weekly_report_job: the clients of the errors list
    jobMails,        \* weekly_report_job: the admin mails called for
    jobCalls         \* the spawned generate_client_report calls and how they ended

impactVars == <<impactCall, impactResult>>
aggVars == <<aggRecs, aggLevel, aggTotals>>
genVars == <<genInput, genPc, recommendations>>
anVars == <<anCall, anResult>>
reportVars == <<spawned, weeklyJobs, tmpFiles, reportClock, reportPc, reportRun, attached>>
fbVars == <<fbAccount, fbCall, fbLog, fbResult>>
gaVars == <<gaCall, gaLog, gaResults>>
jobVars == <<jobPc, jobTesting, jobClients, jobResults, jobNext, jobSuccesses, jobErrors, jobMails, jobCalls>>
vars == <<impactCall, impactResult, aggRecs, aggLevel, aggTotals,
          genInput, genPc, recommendations, anCall, anResult,
          spawned, weeklyJobs, tmpFiles, reportClock, reportPc, reportRun, attached,
          fbAccount, fbCall, fbLog, fbResult, gaCall, gaLog, gaResults,
          jobPc, jobTesting, jobClients, jobResults, jobNext, jobSuccesses, jobErrors,
          jobMails, jobCalls>>

-----------------------------------------------------------------------------
(* Exact rational arithmetic for Python's numeric values.                  *)

Abs(x) == IF x < 0 THEN -x ELSE x

RECURSIVE GCD(_, _)
GCD(a, b) == IF b = 0 THEN a ELSE GCD(b, a % b)

Rat(n, d) ==
    LET g == GCD(Abs(n), Abs(d))
        s == IF d < 0 THEN -1 ELSE 1
    IN  [n |-> (s * n) \div g, d |-> (s * d) \div g]

RInt(k) == [n |-> k, d |-> 1]
Zero == RInt(0)
None == [n |-> 0, d |-> 0]
IsNone(x) == x.d = 0

RAdd(a, b) == Rat(a.n * b.d + b.n * a.d, a.d * b.d)
RSub(a, b) == Rat(a.n * b.d - b.n * a.d, a.d * b.d)
RMul(a, b) == Rat(a.n * b.n, a.d * b.d)
RDiv(a, b) == Rat(a.n * b.d, a.d * b.n)
RNeg(a) == [n |-> -a.n, d |-> a.d]
RAbs(a) == [n |-> Abs(a.n), d |-> a.d]
RLt(a, b) == a.n * b.d < b.n * a.d
RGt(a, b) == RLt(b, a)
RIsZero(a) == a.n = 0
\* Python's int(x): truncation toward zero
Trunc(a) == IF a.n >= 0 THEN a.n \div a.d ELSE -((-a.n) \div a.d)

\* d.get(k, default)
Get(d, k, default) == IF k \in DOMAIN d THEN d[k] ELSE default

-----------------------------------------------------------------------------
(* impact_models.py                                                        *)

WeeksPerMonth == 4
Weeks == RInt(WeeksPerMonth)
\* "3x CPA" estimate of the revenue per conversion
CpaValueMultiplier == 3
\* customer_value fallback when there are no conversions to take a CPA from
FallbackCustomerValue == 100
\* what a division by zero does to a call
ZeroDivisionError == [raised |-> "ZeroDivisionError"]

\* format(x, '.0f'): the nearest integer, a tie going to the even one
RoundHalfEven(a) ==
    LET q == a.n \div a.d
        r == a.n % a.d
    IN  IF 2 * r < a.d THEN q
        ELSE IF 2 * r > a.d THEN q + 1
        ELSE IF q % 2 = 0 THEN q ELSE q + 1

\* the entry 'Customer value: {value_note}' of a result's assumptions:
\* whether the value was given, estimated as 3 x CPA or the fallback, and the RM printed
GivenValueNote(customer_value) == [note |-> "given", rm |-> customer_value]
EstimatedValueNote(customer_value) ==
    [note |-> "estimated 3x CPA", rm |-> RInt(RoundHalfEven(customer_value))]
FallbackValueNote == [note |-> "estimated", rm |-> RInt(FallbackCustomerValue)]

\* faulty variant: savings are counted only while the segment has no conversions
calculate_exclusion_impact_only_unconverted(spend, conversions) ==
    LET monthly_savings == IF conversions.n = 0 THEN RMul(spend, Weeks) ELSE Zero
    IN  [monthly_savings |-> monthly_savings,
         additional_conversions_monthly |-> Zero,
         additional_revenue_monthly |-> Zero,
         confidence |-> "high",
         confidence_pct |-> 90]

calculate_exclusion_impact(spend, conversions) ==
    LET monthly_savings == RMul(spend, Weeks)
    IN  [monthly_savings |-> monthly_savings,
         additional_conversions_monthly |-> Zero,
         additional_revenue_monthly |-> Zero,
         confidence |-> "high",
         confidence_pct |-> 90]

volume_increase_rate == Rat(20, 100)
cpa_degradation == Rat(110, 100)

\* the early return of calculate_scaling_impact
NoConversionsToScale ==
    [monthly_savings |-> Zero,
     additional_conversions_monthly |-> Zero,
     additional_revenue_monthly |-> Zero,
     confidence |-> "low",
     confidence_pct |-> 30]

\* calculate_scaling_impact past its early return; divides by current_conversions
ScalingEstimate(current_spend, current_conversions, scale_factor, customer_value) ==
    IF RIsZero(current_conversions)
    THEN ZeroDivisionError
    ELSE
    LET current_cpa == RDiv(current_spend, current_conversions)
        value == IF IsNone(customer_value)
                 THEN RMul(current_cpa, RInt(CpaValueMultiplier))
                 ELSE customer_value
        new_cpa == RMul(current_cpa, cpa_degradation)
        additional_conversions == RMul(current_conversions, volume_increase_rate)
        additional_revenue == RMul(additional_conversions, value)
        additional_spend == RMul(additional_conversions, new_cpa)
        value_note == IF IsNone(customer_value)
                      THEN EstimatedValueNote(value)
                      ELSE GivenValueNote(customer_value)
        net_benefit == RSub(additional_revenue, additional_spend)
    IN  [monthly_savings |-> Zero,
         additional_conversions_monthly |-> RMul(additional_conversions, Weeks),
         additional_spend_monthly |-> RMul(additional_spend, Weeks),
         additional_revenue_monthly |-> RMul(additional_revenue, Weeks),
         net_benefit_monthly |-> RMul(net_benefit, Weeks),
         new_cpa |-> new_cpa,
         confidence |-> "moderate",
         confidence_pct |-> 70,
         assumptions |-> [customer_value |-> value_note]]

\* faulty variant: the zero-conversions guard is missing
calculate_scaling_impact_unguarded(current_spend, current_conversions, scale_factor, customer_value) ==
    ScalingEstimate(current_spend, current_conversions, scale_factor, customer_value)

calculate_scaling_impact(current_spend, current_conversions, scale_factor, customer_value) ==
    IF RIsZero(current_conversions)
    THEN NoConversionsToScale
    ELSE ScalingEstimate(current_spend, current_conversions, scale_factor, customer_value)

\* faulty variant: the tier boundaries 5 and 3 belong to the upper tier
RefreshTier_inclusive(frequency) ==
    IF ~RLt(frequency, RInt(5))
    THEN [ctr_improvement |-> Rat(40, 100), conv_rate_improvement |-> Rat(10, 100),
          confidence_pct |-> 75]
    ELSE IF ~RLt(frequency, RInt(3))
    THEN [ctr_improvement |-> Rat(25, 100), conv_rate_improvement |-> Rat(10, 100),
          confidence_pct |-> 70]
    ELSE [ctr_improvement |-> Rat(15, 100), conv_rate_improvement |-> Rat(5, 100),
          confidence_pct |-> 60]

\* the (ctr_improvement, conv_rate_improvement, confidence_pct) tier of a frequency
RefreshTier(frequency) ==
    IF RGt(frequency, RInt(5))
    THEN [ctr_improvement |-> Rat(40, 100), conv_rate_improvement |-> Rat(10, 100),
          confidence_pct |-> 75]
    ELSE IF RGt(frequency, RInt(3))
    THEN [ctr_improvement |-> Rat(25, 100), conv_rate_improvement |-> Rat(10, 100),
          confidence_pct |-> 70]
    ELSE [ctr_improvement |-> Rat(15, 100), conv_rate_improvement |-> Rat(5, 100),
          confidence_pct |-> 60]

\* faulty variant: the estimate is twice the CPA
EstimatedCustomerValue_twice_cpa(spend, conversions, customer_value) ==
    IF RGt(conversions, Zero) /\ IsNone(customer_value)
    THEN RMul(RDiv(spend, conversions), RInt(2))
    ELSE IF IsNone(customer_value)
    THEN RInt(FallbackCustomerValue)
    ELSE customer_value

\* the customer value used by creative refresh, bid adjustment and geo adjustment
EstimatedCustomerValue(spend, conversions, customer_value) ==
    IF RGt(conversions, Zero) /\ IsNone(customer_value)
    THEN RMul(RDiv(spend, conversions), RInt(CpaValueMultiplier))
    ELSE IF IsNone(customer_value)
    THEN RInt(FallbackCustomerValue)
    ELSE customer_value

\* the value_note set in the same three branches
CustomerValueNote(spend, conversions, customer_value) ==
    IF RGt(conversions, Zero) /\ IsNone(customer_value)
    THEN EstimatedValueNote(RMul(RDiv(spend, conversions), RInt(CpaValueMultiplier)))
    ELSE IF IsNone(customer_value)
    THEN FallbackValueNote
    ELSE GivenValueNote(customer_value)

calculate_creative_refresh_impact(spend, frequency, current_ctr, current_conversions, customer_value) ==
    LET tier == RefreshTier(frequency)
        value == EstimatedCustomerValue(spend, current_conversions, customer_value)
        additional_conversions == RMul(current_conversions, tier.conv_rate_improvement)
        additional_revenue == RMul(additional_conversions, value)
        net_benefit == additional_revenue
    IN  [monthly_savings |-> Zero,
         additional_conversions_monthly |-> RMul(additional_conversions, Weeks),
         additional_revenue_monthly |-> RMul(additional_revenue, Weeks),
         net_benefit_monthly |-> RMul(net_benefit, Weeks),
         ctr_improvement_pct |-> Trunc(RMul(tier.ctr_improvement, RInt(100))),
         conv_rate_improvement_pct |-> Trunc(RMul(tier.conv_rate_improvement, RInt(100))),
         confidence |-> "moderate",
         confidence_pct |-> tier.confidence_pct,
         assumptions |->
             [customer_value |-> CustomerValueNote(spend, current_conversions, customer_value)]]

calculate_schedule_impact(wasted_hours_spend, avg_conv_rate, peak_multiplier, avg_cpa, customer_value) ==
    IF RIsZero(avg_cpa)
    THEN ZeroDivisionError
    ELSE
    LET value == IF IsNone(customer_value)
                 THEN RMul(avg_cpa, RInt(CpaValueMultiplier))
                 ELSE customer_value
        value_note == IF IsNone(customer_value)
                      THEN EstimatedValueNote(value)
                      ELSE GivenValueNote(customer_value)
        redirected_conversions == RMul(RDiv(wasted_hours_spend, avg_cpa), peak_multiplier)
        additional_revenue == RMul(redirected_conversions, value)
    IN  [monthly_savings |-> Zero,
         additional_conversions_monthly |-> RMul(redirected_conversions, Weeks),
         additional_revenue_monthly |-> RMul(additional_revenue, Weeks),
         net_benefit_monthly |-> RMul(additional_revenue, Weeks),
         confidence |-> "moderate",
         confidence_pct |-> 70,
         assumptions |-> [customer_value |-> value_note]]

bid_volume_efficiency == Rat(8, 10)
bid_decrease_conversion_loss == Rat(20, 100)

\* faulty variant: volume follows the bid one to one
BidIncreaseImpact_linear(bid_change_pct, keyword_spend, keyword_conversions, value) ==
    LET volume_increase == bid_change_pct
        additional_conversions ==
            IF RGt(keyword_conversions, Zero)
            THEN RMul(keyword_conversions, volume_increase) ELSE Zero
        additional_revenue == RMul(additional_conversions, value)
        additional_spend == RMul(keyword_spend, bid_change_pct)
        net_benefit == RSub(additional_revenue, additional_spend)
    IN  [monthly_savings |-> Zero,
         additional_conversions_monthly |-> RMul(additional_conversions, Weeks),
         additional_spend_monthly |-> RMul(additional_spend, Weeks),
         additional_revenue_monthly |-> RMul(additional_revenue, Weeks),
         net_benefit_monthly |-> RMul(net_benefit, Weeks),
         confidence |-> "moderate",
         confidence_pct |-> 70]

\* the "Increase bid" branch
BidIncreaseImpact(bid_change_pct, keyword_spend, keyword_conversions, value) ==
    LET volume_increase == RMul(bid_change_pct, bid_volume_efficiency)
        additional_conversions ==
            IF RGt(keyword_conversions, Zero)
            THEN RMul(keyword_conversions, volume_increase) ELSE Zero
        additional_revenue == RMul(additional_conversions, value)
        additional_spend == RMul(keyword_spend, bid_change_pct)
        net_benefit == RSub(additional_revenue, additional_spend)
    IN  [monthly_savings |-> Zero,
         additional_conversions_monthly |-> RMul(additional_conversions, Weeks),
         additional_spend_monthly |-> RMul(additional_spend, Weeks),
         additional_revenue_monthly |-> RMul(additional_revenue, Weeks),
         net_benefit_monthly |-> RMul(net_benefit, Weeks),
         confidence |-> "moderate",
         confidence_pct |-> 70]

\* faulty variant: the conversions lost follow the size of the cut
BidDecreaseImpact_proportional(bid_change_pct, keyword_spend, keyword_conversions) ==
    LET savings == RAbs(RMul(keyword_spend, bid_change_pct))
        conversions_lost ==
            IF RGt(keyword_conversions, Zero)
            THEN RMul(keyword_conversions, RAbs(bid_change_pct)) ELSE Zero
    IN  [monthly_savings |-> RMul(savings, Weeks),
         conversions_lost_monthly |-> RMul(conversions_lost, Weeks),
         additional_conversions_monthly |-> RNeg(conversions_lost),
         net_benefit_monthly |-> RMul(savings, Weeks),
         confidence |-> "moderate",
         confidence_pct |-> 70]

\* the "Decrease bid" branch (also taken when the bid is unchanged)
BidDecreaseImpact(bid_change_pct, keyword_spend, keyword_conversions) ==
    LET savings == RAbs(RMul(keyword_spend, bid_change_pct))
        conversions_lost ==
            IF RGt(keyword_conversions, Zero)
            THEN RMul(keyword_conversions, bid_decrease_conversion_loss) ELSE Zero
    IN  [monthly_savings |-> RMul(savings, Weeks),
         conversions_lost_monthly |-> RMul(conversions_lost, Weeks),
         additional_conversions_monthly |-> RNeg(conversions_lost),
         net_benefit_monthly |-> RMul(savings, Weeks),
         confidence |-> "moderate",
         confidence_pct |-> 70]

\* the early return of calculate_bid_adjustment_impact
InvalidCurrentBid ==
    [monthly_savings |-> Zero,
     additional_conversions_monthly |-> Zero,
     additional_revenue_monthly |-> Zero,
     confidence |-> "low",
     confidence_pct |-> 30]

calculate_bid_adjustment_impact(current_bid, suggested_bid, keyword_spend, keyword_conversions, customer_value) ==
    IF RIsZero(current_bid)
    THEN InvalidCurrentBid
    ELSE
    LET bid_change_pct == RDiv(RSub(suggested_bid, current_bid), current_bid)
        value == EstimatedCustomerValue(keyword_spend, keyword_conversions, customer_value)
        value_note == CustomerValueNote(keyword_spend, keyword_conversions, customer_value)
    IN  IF RGt(bid_change_pct, Zero)
        THEN BidIncreaseImpact(bid_change_pct, keyword_spend, keyword_conversions, value)
             @@ [assumptions |-> [customer_value |-> value_note]]
        ELSE BidDecreaseImpact(bid_change_pct, keyword_spend, keyword_conversions)

geo_bid_damping == Rat(1, 2)
geo_scale_factor == Rat(120, 100)

calculate_geo_adjustment_impact(current_spend, current_conversions, geo_performance_multiplier, customer_value) ==
    IF RLt(geo_performance_multiplier, Rat(1, 2))
    THEN calculate_exclusion_impact(current_spend, current_conversions)
    ELSE IF RGt(geo_performance_multiplier, Rat(3, 2))
    THEN calculate_scaling_impact(current_spend, current_conversions, geo_scale_factor,
                                  customer_value)
    ELSE
    LET value == EstimatedCustomerValue(current_spend, current_conversions, customer_value)
        value_note == CustomerValueNote(current_spend, current_conversions, customer_value)
        bid_adjustment == RMul(RSub(geo_performance_multiplier, RInt(1)), geo_bid_damping)
        spend_change == RMul(current_spend, bid_adjustment)
        conversions_change ==
            RMul(RMul(current_conversions, bid_adjustment), bid_volume_efficiency)
        revenue_change == RMul(conversions_change, value)
        net_benefit == RSub(revenue_change, spend_change)
    IN  [monthly_savings |->
             IF RLt(spend_change, Zero) THEN RMul(RNeg(spend_change), Weeks) ELSE Zero,
         additional_conversions_monthly |-> RMul(conversions_change, Weeks),
         additional_spend_monthly |->
             IF RGt(spend_change, Zero) THEN RMul(spend_change, Weeks) ELSE Zero,
         additional_revenue_monthly |-> RMul(revenue_change, Weeks),
         net_benefit_monthly |-> RMul(net_benefit, Weeks),
         confidence |-> "moderate",
         confidence_pct |-> 70,
         assumptions |-> [customer_value |-> value_note]]

DaysPerWeek == 7
DaysPerMonth == 30

\* the "Decrease budget" branch (also taken when the budget is unchanged)
BudgetDecreaseImpact(current_budget, suggested_budget, current_conversions, budget_change_pct) ==
    LET savings == RMul(RAbs(RSub(current_budget, suggested_budget)), RInt(DaysPerMonth))
        conversions_lost ==
            RMul(RMul(current_conversions, RAbs(budget_change_pct)), RInt(DaysPerMonth))
    IN  [monthly_savings |-> savings,
         conversions_lost_monthly |-> conversions_lost,
         additional_conversions_monthly |-> RNeg(conversions_lost),
         net_benefit_monthly |-> savings,
         confidence |-> "moderate",
         confidence_pct |-> 70]

calculate_budget_adjustment_impact(current_budget, suggested_budget, current_conversions, customer_value) ==
    LET budget_change_pct ==
            IF RGt(current_budget, Zero)
            THEN RDiv(RSub(suggested_budget, current_budget), current_budget)
            ELSE Zero
    IN  IF RGt(budget_change_pct, Zero)
        THEN calculate_scaling_impact(RMul(current_budget, RInt(DaysPerWeek)),
                                      RMul(current_conversions, RInt(DaysPerWeek)),
                                      RAdd(RInt(1), budget_change_pct), customer_value)
        ELSE BudgetDecreaseImpact(current_budget, suggested_budget, current_conversions,
                                  budget_change_pct)

-----------------------------------------------------------------------------
(* Arguments of the impact-model calls: non-negative metrics on small      *)
(* grids that hold the tier boundaries and the spec's example scenarios.   *)

MaxSpendSteps == 5
MaxConvHalves == 8
MaxFreqTenths == 60
MaxBidQuarters == 6

Spends == {RInt(10 * k) : k \in 0..MaxSpendSteps} \cup {Rat(25, 2)}
Conversions == {Rat(k, 2) : k \in 0..MaxConvHalves}
Frequencies == {Rat(k, 10) : k \in 0..MaxFreqTenths}
Bids == {Rat(k, 4) : k \in 0..MaxBidQuarters}
ScaleFactors == {Rat(120, 100), Rat(125, 100), Rat(130, 100)}
CustomerValues == {None, RInt(200)}
Ctrs == {Zero, Rat(2, 100)}
AvgCpas == {Zero, RInt(50)}
PeakMultipliers == {Rat(5, 2)}
GeoMultipliers == {Rat(4, 10), Rat(1, 2), Rat(8, 10), RInt(1), Rat(3, 2), RInt(2)}
Budgets == {RInt(10 * k) : k \in 0..MaxSpendSteps}

IdleAgg ==
    /\ aggRecs = <<>>
    /\ aggLevel = "none"
    /\ aggTotals = <<>>

IdleGen ==
    /\ genInput = <<>>
    /\ genPc = "idle"
    /\ recommendations = <<>>

IdleAnalyze ==
    /\ anCall = [fn |-> "none"]
    /\ anResult = [fn |-> "none"]

\* the containers that run generate_client_report, one invocation at a time
Workers == {1, 2}

\* the clients of clients.json, each named by its facebook_ad_account_id
ReportClients == {1, 2}

NoFile == [account |-> 0, timestamp |-> 0 - 1]
NoRun == [client |-> 0, own |-> NoFile]

IdleReport ==
    /\ spawned = <<>>
    /\ weeklyJobs = 0
    /\ tmpFiles = [w \in Workers |-> {}]
    /\ reportClock = 0
    /\ reportPc = [w \in Workers |-> "idle"]
    /\ reportRun = [w \in Workers |-> NoRun]
    /\ attached = {}

IdleFacebook ==
    /\ fbAccount = [fn |-> "none"]
    /\ fbCall = [fn |-> "none"]
    /\ fbLog = <<>>
    /\ fbResult = [fn |-> "none"]

IdleGoogle ==
    /\ gaCall = [fn |-> "none"]
    /\ gaLog = <<>>
    /\ gaResults = [returned |-> FALSE, results |-> <<>>]

IdleJob ==
    /\ jobPc = "idle"
    /\ jobTesting = TRUE
    /\ jobClients = <<>>
    /\ jobResults = <<>>
    /\ jobNext = 1
    /\ jobSuccesses = <<>>
    /\ jobErrors = <<>>
    /\ jobMails = {}
    /\ jobCalls = <<>>

InitImpact ==
    /\ impactCall = [fn |-> "none"]
    /\ impactResult = [fn |-> "none"]
    /\ IdleAgg
    /\ IdleGen
    /\ IdleAnalyze
    /\ IdleReport
    /\ IdleFacebook
    /\ IdleGoogle
    /\ IdleJob

CallExclusion ==
    /\ impactCall.fn = "none"
    /\ \E spend \in Spends, conversions \in Conversions :
        /\ impactCall' = [fn |-> "calculate_exclusion_impact",
                          spend |-> spend, conversions |-> conversions]
        /\ impactResult' = calculate_exclusion_impact(spend, conversions)
        /\ UNCHANGED <<aggVars, genVars, anVars, reportVars, fbVars, gaVars, jobVars>>

CallScaling ==
    /\ impactCall.fn = "none"
    /\ \E spend \in Spends, conversions \in Conversions,
       scale_factor \in ScaleFactors, customer_value \in CustomerValues :
        /\ impactCall' = [fn |-> "calculate_scaling_impact",
                          current_spend |-> spend, current_conversions |-> conversions,
                          scale_factor |-> scale_factor, customer_value |-> customer_value]
        /\ impactResult' = calculate_scaling_impact(spend, conversions, scale_factor, customer_value)
        /\ UNCHANGED <<aggVars, genVars, anVars, reportVars, fbVars, gaVars, jobVars>>

CallCreativeRefresh ==
    /\ impactCall.fn = "none"
    /\ \E spend \in Spends, frequency \in Frequencies, ctr \in Ctrs,
       conversions \in Conversions, customer_value \in CustomerValues :
        /\ impactCall' = [fn |-> "calculate_creative_refresh_impact",
                          spend |-> spend, frequency |-> frequency, current_ctr |-> ctr,
                          current_conversions |-> conversions, customer_value |-> customer_value]
        /\ impactResult' = calculate_creative_refresh_impact(spend, frequency, ctr, conversions, customer_value)
        /\ UNCHANGED <<aggVars, genVars, anVars, reportVars, fbVars, gaVars, jobVars>>

CallSchedule ==
    /\ impactCall.fn = "none"
    /\ \E spend \in Spends, peak \in PeakMultipliers, avg_cpa \in AvgCpas,
       customer_value \in CustomerValues :
        /\ impactCall' = [fn |-> "calculate_schedule_impact",
                          wasted_hours_spend |-> spend, peak_multiplier |-> peak,
                          avg_cpa |-> avg_cpa, customer_value |-> customer_value]
        /\ impactResult' = calculate_schedule_impact(spend, Rat(2, 100), peak, avg_cpa, customer_value)
        /\ UNCHANGED <<aggVars, genVars, anVars, reportVars, fbVars, gaVars, jobVars>>

CallBidAdjustment ==
    /\ impactCall.fn = "none"
    /\ \E current_bid \in Bids, suggested_bid \in Bids, spend \in Spends,
       conversions \in Conversions, customer_value \in CustomerValues :
        /\ impactCall' = [fn |-> "calculate_bid_adjustment_impact",
                          current_bid |-> current_bid, suggested_bid |-> suggested_bid,
                          keyword_spend |-> spend, keyword_conversions |-> conversions,
                          customer_value |-> customer_value]
        /\ impactResult' = calculate_bid_adjustment_impact(current_bid, suggested_bid, spend,
                                                           conversions, customer_value)
        /\ UNCHANGED <<aggVars, genVars, anVars, reportVars, fbVars, gaVars, jobVars>>

CallGeoAdjustment ==
    /\ impactCall.fn = "none"
    /\ \E spend \in Spends, conversions \in Conversions, multiplier \in GeoMultipliers,
       customer_value \in CustomerValues :
        /\ impactCall' = [fn |-> "calculate_geo_adjustment_impact",
                          current_spend |-> spend, current_conversions |-> conversions,
                          geo_performance_multiplier |-> multiplier,
                          customer_value |-> customer_value]
        /\ impactResult' = calculate_geo_adjustment_impact(spend, conversions, multiplier,
                                                           customer_value)
        /\ UNCHANGED <<aggVars, genVars, anVars, reportVars, fbVars, gaVars, jobVars>>

CallBudgetAdjustment ==
    /\ impactCall.fn = "none"
    /\ \E current_budget \in Budgets, suggested_budget \in Budgets,
       conversions \in Conversions, customer_value \in CustomerValues :
        /\ impactCall' = [fn |-> "calculate_budget_adjustment_impact",
                          current_budget |-> current_budget,
                          suggested_budget |-> suggested_budget,
                          current_conversions |-> conversions,
                          customer_value |-> customer_value]
        /\ impactResult' = calculate_budget_adjustment_impact(current_budget, suggested_budget,
                                                              conversions, customer_value)
        /\ UNCHANGED <<aggVars, genVars, anVars, reportVars, fbVars, gaVars, jobVars>>

NextImpact ==
    \/ CallExclusion
    \/ CallScaling
    \/ CallCreativeRefresh
    \/ CallSchedule
    \/ CallBidAdjustment
    \/ CallGeoAdjustment
    \/ CallBudgetAdjustment

SpecImpact == InitImpact /\ [][NextImpact]_vars

-----------------------------------------------------------------------------
(* Properties of the impact models, checked under SpecImpact.              *)

IsCall(fn) == impactCall.fn = fn

\* C1: every calculate_exclusion_impact(spend, conversions) call returns
\* monthly_savings equal to spend * 4 and confidence_pct 90, whatever the
\* conversions argument is.
ExclusionSavesFourWeeksOfSpend ==
    IsCall("calculate_exclusion_impact") =>
        /\ impactResult.monthly_savings.n * impactCall.spend.d
               = 4 * impactCall.spend.n * impactResult.monthly_savings.d
        /\ impactResult.confidence_pct = 90
        /\ \A c \in Conversions :
               calculate_exclusion_impact(impactCall.spend, c) = impactResult

\* C1 witness: the spec's example, spend 20 gives 80, on a call that reports conversions
ExclusionExampleReached ==
    /\ IsCall("calculate_exclusion_impact")
    /\ impactCall.spend = RInt(20)
    /\ impactCall.conversions.n > 0
    /\ impactResult.monthly_savings = RInt(80)
    /\ impactResult.confidence_pct = 90

\* C2: for every calculate_scaling_impact call with current_conversions > 0,
\* additional_conversions_monthly is current_conversions * 0.8 * (scale_factor - 1) * 4
\* for every scale_factor, and new_cpa is 1.10 * current_spend / current_conversions.
ScalingVolumeFollowsScaleFactor ==
    (IsCall("calculate_scaling_impact") /\ impactCall.current_conversions.n > 0) =>
        /\ impactResult.additional_conversions_monthly
               = RMul(RMul(RMul(impactCall.current_conversions, Rat(8, 10)),
                           RSub(impactCall.scale_factor, RInt(1))), RInt(4))
        /\ impactResult.new_cpa
               = RDiv(RMul(Rat(11, 10), impactCall.current_spend),
                      impactCall.current_conversions)

\* C3: a calculate_scaling_impact call with current_conversions == 0 returns the
\* fallback estimate (savings, conversions and revenue 0, confidence low, 30)
\* whatever the other arguments are, and raises no division error.
ScalingFromNothingIsFallback ==
    (IsCall("calculate_scaling_impact") /\ impactCall.current_conversions.n = 0) =>
        /\ "raised" \notin DOMAIN impactResult
        /\ impactResult.monthly_savings.n = 0
        /\ impactResult.additional_conversions_monthly.n = 0
        /\ impactResult.additional_revenue_monthly.n = 0
        /\ impactResult.confidence = "low"
        /\ impactResult.confidence_pct = 30

\* C3 witness: the fallback returned for a call with spend and a customer value
ScalingFallbackReached ==
    /\ IsCall("calculate_scaling_impact")
    /\ impactCall.current_conversions.n = 0
    /\ impactCall.current_spend.n > 0
    /\ ~IsNone(impactCall.customer_value)
    /\ impactCall.scale_factor = Rat(13, 10)
    /\ impactResult.confidence_pct = 30

\* C4: calculate_creative_refresh_impact returns (confidence_pct, ctr_improvement_pct)
\* (75, 40) when frequency > 5, (70, 25) when 3 < frequency <= 5 and (60, 15)
\* when frequency <= 3; the boundaries 5 and 3 fall in the lower tier.
RefreshPairFollowsFrequencyTier ==
    IsCall("calculate_creative_refresh_impact") =>
        LET f == impactCall.frequency
            pair == <<impactResult.confidence_pct, impactResult.ctr_improvement_pct>>
        IN  /\ (f.n > 5 * f.d) => pair = <<75, 40>>
            /\ (f.n > 3 * f.d /\ f.n <= 5 * f.d) => pair = <<70, 25>>
            /\ (f.n <= 3 * f.d) => pair = <<60, 15>>

\* C4 witness: frequency exactly 5 lands in the middle tier
RefreshBoundaryFiveReached ==
    /\ IsCall("calculate_creative_refresh_impact")
    /\ impactCall.frequency = RInt(5)
    /\ impactResult.confidence_pct = 70
    /\ impactResult.ctr_improvement_pct = 25

IsBidCall == IsCall("calculate_bid_adjustment_impact")

\* C5: for every bid decrease (suggested_bid < current_bid, current_bid > 0),
\* monthly_savings is keyword_spend * (current_bid - suggested_bid) / current_bid * 4
\* and conversions_lost_monthly is 0.20 * keyword_conversions * 4 for every cut size.
BidCutSavesLinearlyLosesFlat ==
    (/\ IsBidCall
     /\ impactCall.current_bid.n > 0
     /\ RLt(impactCall.suggested_bid, impactCall.current_bid)) =>
        /\ impactResult.monthly_savings
               = RMul(RDiv(RMul(impactCall.keyword_spend,
                                RSub(impactCall.current_bid, impactCall.suggested_bid)),
                           impactCall.current_bid), RInt(4))
        /\ impactResult.conversions_lost_monthly
               = RMul(RMul(Rat(20, 100), impactCall.keyword_conversions), RInt(4))

\* C5 witness: a 75% cut of a keyword with spend and conversions
BidCutReached ==
    /\ IsBidCall
    /\ impactCall.current_bid = RInt(1)
    /\ impactCall.suggested_bid = Rat(1, 4)
    /\ impactCall.keyword_spend = RInt(40)
    /\ impactCall.keyword_conversions = RInt(4)
    /\ impactResult.monthly_savings = RInt(120)
    /\ impactResult.conversions_lost_monthly = Rat(16, 5)

\* C6: for every bid increase (suggested_bid > current_bid > 0) with
\* keyword_conversions > 0 and p = (suggested_bid - current_bid) / current_bid,
\* additional_conversions_monthly is keyword_conversions * p * 0.8 * 4 and
\* additional_spend_monthly is keyword_spend * p * 4.
BidRaiseScalesAtEightyPercent ==
    (/\ IsBidCall
     /\ impactCall.current_bid.n > 0
     /\ RGt(impactCall.suggested_bid, impactCall.current_bid)
     /\ impactCall.keyword_conversions.n > 0) =>
        LET p == RDiv(RSub(impactCall.suggested_bid, impactCall.current_bid),
                      impactCall.current_bid)
        IN  /\ impactResult.additional_conversions_monthly
                   = RMul(RMul(RMul(impactCall.keyword_conversions, p), Rat(8, 10)), RInt(4))
            /\ impactResult.additional_spend_monthly
                   = RMul(RMul(impactCall.keyword_spend, p), RInt(4))

\* C6 witness: the spec's example, bid 1.00 -> 1.25, spend 50, conversions 4
BidRaiseExampleReached ==
    /\ IsBidCall
    /\ impactCall.current_bid = RInt(1)
    /\ impactCall.suggested_bid = Rat(5, 4)
    /\ impactCall.keyword_spend = RInt(50)
    /\ impactCall.keyword_conversions = RInt(4)
    /\ impactResult.additional_conversions_monthly = Rat(16, 5)
    /\ impactResult.additional_spend_monthly = RInt(50)

\* the six functions that estimate from ratios
RatioFunctions ==
    {"calculate_scaling_impact", "calculate_creative_refresh_impact",
     "calculate_schedule_impact", "calculate_bid_adjustment_impact",
     "calculate_geo_adjustment_impact", "calculate_budget_adjustment_impact"}

\* C12: for all non-negative arguments, zero spend, conversions, current_bid,
\* current_budget and avg_cpa included, the scaling, creative refresh, schedule,
\* bid, geo and budget impact functions return an estimate and never raise a
\* division-by-zero error.
ImpactModelsNeverDivideByZero ==
    impactCall.fn \in RatioFunctions =>
        /\ "raised" \notin DOMAIN impactResult
        /\ "confidence" \in DOMAIN impactResult

\* the spend and conversions of the record a call estimates
CallSpend ==
    CASE IsCall("calculate_scaling_impact") -> impactCall.current_spend
      [] IsCall("calculate_creative_refresh_impact") -> impactCall.spend
      [] IsCall("calculate_bid_adjustment_impact") -> impactCall.keyword_spend
      [] IsCall("calculate_geo_adjustment_impact") -> impactCall.current_spend
      [] IsCall("calculate_budget_adjustment_impact") ->
             RMul(impactCall.current_budget, RInt(DaysPerWeek))

CallConversions ==
    CASE IsCall("calculate_scaling_impact") -> impactCall.current_conversions
      [] IsCall("calculate_creative_refresh_impact") -> impactCall.current_conversions
      [] IsCall("calculate_bid_adjustment_impact") -> impactCall.keyword_conversions
      [] IsCall("calculate_geo_adjustment_impact") -> impactCall.current_conversions
      [] IsCall("calculate_budget_adjustment_impact") ->
             RMul(impactCall.current_conversions, RInt(DaysPerWeek))

\* an estimate was returned that priced its conversions without a given customer_value
ValueWasEstimated ==
    /\ impactCall.fn \in RatioFunctions
    /\ IsNone(impactCall.customer_value)
    /\ "assumptions" \in DOMAIN impactResult

\* the estimate is priced at `value` per conversion and says so
PricedAt(value, note) ==
    /\ impactResult.assumptions.customer_value.note = note
    /\ impactResult.assumptions.customer_value.rm = RInt(RoundHalfEven(value))
    /\ impactResult.additional_revenue_monthly
           = RMul(impactResult.additional_conversions_monthly, value)

\* three times the CPA a call observes: its avg_cpa for the schedule, else spend / conversions
ThreeTimesCpa ==
    IF IsCall("calculate_schedule_impact")
    THEN RMul(impactCall.avg_cpa, RInt(3))
    ELSE RMul(RDiv(CallSpend, CallConversions), RInt(3))

\* C14 as stated: whenever customer_value is not supplied, the value used is
\* exactly 3 times the observed CPA, and no other default is ever substituted.
UnsuppliedValueIsAlwaysThreeTimesCpa ==
    ValueWasEstimated =>
        /\ IsCall("calculate_schedule_impact") \/ RGt(CallConversions, Zero)
        /\ PricedAt(ThreeTimesCpa, "estimated 3x CPA")

\* C14, amended: when customer_value is not supplied, the value used is 3 times
\* the CPA (spend / conversions; the avg_cpa argument for the schedule) if the
\* record has conversions, and the fixed fallback 100 if it has none.
UnsuppliedValueIsThreeTimesCpaOrFallback ==
    ValueWasEstimated =>
        IF IsCall("calculate_schedule_impact") \/ RGt(CallConversions, Zero)
        THEN PricedAt(ThreeTimesCpa, "estimated 3x CPA")
        ELSE PricedAt(RInt(100), "estimated")

\* C14 witness: a creative refresh of an ad without conversions was priced at the fallback
FallbackValueReached ==
    /\ IsCall("calculate_creative_refresh_impact")
    /\ ValueWasEstimated
    /\ RIsZero(impactCall.current_conversions)
    /\ RGt(impactCall.spend, Zero)
    /\ impactResult.assumptions.customer_value = [note |-> "estimated", rm |-> RInt(100)]

-----------------------------------------------------------------------------
(* calculate_total_impact.py                                               *)

confidence_factors ==
    [conservative |-> Rat(5, 10), moderate |-> Rat(7, 10), optimistic |-> RInt(1)]

\* confidence_factors.get(confidence_level, 0.7)
ConfidenceFactor(confidence_level) == Get(confidence_factors, confidence_level, Rat(7, 10))

\* faulty variant: monthly_savings is summed without the confidence factor
ScaledImpact_unscaled_savings(rec, factor) ==
    LET impact_data == Get(rec, "impact_data", <<>>)
        monthly_savings == Get(impact_data, "monthly_savings", Zero)
        additional_conversions ==
            RMul(Get(impact_data, "additional_conversions_monthly", Zero), factor)
        additional_revenue == RMul(Get(impact_data, "additional_revenue_monthly", Zero), factor)
        additional_spend == RMul(Get(impact_data, "additional_spend_monthly", Zero), factor)
        net_benefit == RMul(Get(impact_data, "net_benefit_monthly", Zero), factor)
    IN  [monthly_savings |-> monthly_savings,
         additional_conversions |-> additional_conversions,
         additional_revenue |-> additional_revenue,
         additional_spend |-> additional_spend,
         net_benefit |->
             IF RIsZero(net_benefit)
                /\ (RGt(monthly_savings, Zero) \/ RGt(additional_revenue, Zero))
             THEN RSub(RAdd(monthly_savings, additional_revenue), additional_spend)
             ELSE net_benefit]

\* one recommendation's projections with the confidence factor applied, and its
\* net benefit, computed from the components when it is not provided
ScaledImpact(rec, factor) ==
    LET impact_data == Get(rec, "impact_data", <<>>)
        monthly_savings == RMul(Get(impact_data, "monthly_savings", Zero), factor)
        additional_conversions ==
            RMul(Get(impact_data, "additional_conversions_monthly", Zero), factor)
        additional_revenue == RMul(Get(impact_data, "additional_revenue_monthly", Zero), factor)
        additional_spend == RMul(Get(impact_data, "additional_spend_monthly", Zero), factor)
        net_benefit == RMul(Get(impact_data, "net_benefit_monthly", Zero), factor)
    IN  [monthly_savings |-> monthly_savings,
         additional_conversions |-> additional_conversions,
         additional_revenue |-> additional_revenue,
         additional_spend |-> additional_spend,
         net_benefit |->
             IF RIsZero(net_benefit)
                /\ (RGt(monthly_savings, Zero) \/ RGt(additional_revenue, Zero))
             THEN RSub(RAdd(monthly_savings, additional_revenue), additional_spend)
             ELSE net_benefit]

\* the totals dict before the loop
InitialTotals(recs, confidence_level) ==
    [total_monthly_savings |-> Zero,
     total_additional_conversions |-> Zero,
     total_additional_revenue |-> Zero,
     total_additional_spend |-> Zero,
     total_net_benefit |-> Zero,
     total_recommendations |-> Len(recs),
     automatable_count |-> 0,
     manual_count |-> 0,
     confidence_level |-> confidence_level,
     confidence_factor |-> ConfidenceFactor(confidence_level),
     breakdown_by_type |-> <<>>,
     breakdown_by_priority |-> [high |-> 0, medium |-> 0, low |-> 0]]

NewTypeBreakdown ==
    [count |-> 0, monthly_savings |-> Zero, additional_conversions |-> Zero,
     additional_revenue |-> Zero, net_benefit |-> Zero]

\* faulty variant: a recommendation without an automation dict is counted in neither group
AggregateOne_unmarked_uncounted(totals, rec, factor) ==
    LET rec_type == Get(rec, "type", "unknown")
        priority == Get(rec, "priority", "medium")
        automation == Get(rec, "automation", <<>>)
        imp == ScaledImpact(rec, factor)
        is_automatable == Get(automation, "is_automatable", FALSE)
        by_type == totals.breakdown_by_type
        old == Get(by_type, rec_type, NewTypeBreakdown)
        new == [count |-> old.count + 1,
                monthly_savings |-> RAdd(old.monthly_savings, imp.monthly_savings),
                additional_conversions |->
                    RAdd(old.additional_conversions, imp.additional_conversions),
                additional_revenue |-> RAdd(old.additional_revenue, imp.additional_revenue),
                net_benefit |-> RAdd(old.net_benefit, imp.net_benefit)]
        by_priority == totals.breakdown_by_priority
    IN  [totals EXCEPT
            !.total_monthly_savings = RAdd(@, imp.monthly_savings),
            !.total_additional_conversions = RAdd(@, imp.additional_conversions),
            !.total_additional_revenue = RAdd(@, imp.additional_revenue),
            !.total_additional_spend = RAdd(@, imp.additional_spend),
            !.total_net_benefit = RAdd(@, imp.net_benefit),
            !.automatable_count = IF is_automatable THEN @ + 1 ELSE @,
            !.manual_count = IF is_automatable \/ automation = <<>> THEN @ ELSE @ + 1,
            !.breakdown_by_type =
                [t \in DOMAIN by_type \cup {rec_type} |->
                    IF t = rec_type THEN new ELSE by_type[t]],
            !.breakdown_by_priority =
                IF priority \in DOMAIN by_priority
                THEN [by_priority EXCEPT ![priority] = @ + 1]
                ELSE by_priority]

\* one iteration of the loop over the recommendations
AggregateOne(totals, rec, factor) ==
    LET rec_type == Get(rec, "type", "unknown")
        priority == Get(rec, "priority", "medium")
        automation == Get(rec, "automation", <<>>)
        imp == ScaledImpact(rec, factor)
        is_automatable == Get(automation, "is_automatable", FALSE)
        by_type == totals.breakdown_by_type
        old == Get(by_type, rec_type, NewTypeBreakdown)
        new == [count |-> old.count + 1,
                monthly_savings |-> RAdd(old.monthly_savings, imp.monthly_savings),
                additional_conversions |->
                    RAdd(old.additional_conversions, imp.additional_conversions),
                additional_revenue |-> RAdd(old.additional_revenue, imp.additional_revenue),
                net_benefit |-> RAdd(old.net_benefit, imp.net_benefit)]
        by_priority == totals.breakdown_by_priority
    IN  [totals EXCEPT
            !.total_monthly_savings = RAdd(@, imp.monthly_savings),
            !.total_additional_conversions = RAdd(@, imp.additional_conversions),
            !.total_additional_revenue = RAdd(@, imp.additional_revenue),
            !.total_additional_spend = RAdd(@, imp.additional_spend),
            !.total_net_benefit = RAdd(@, imp.net_benefit),
            !.automatable_count = IF is_automatable THEN @ + 1 ELSE @,
            !.manual_count = IF is_automatable THEN @ ELSE @ + 1,
            !.breakdown_by_type =
                [t \in DOMAIN by_type \cup {rec_type} |->
                    IF t = rec_type THEN new ELSE by_type[t]],
            !.breakdown_by_priority =
                IF priority \in DOMAIN by_priority
                THEN [by_priority EXCEPT ![priority] = @ + 1]
                ELSE by_priority]

RECURSIVE AggregateLoop(_, _, _, _)
AggregateLoop(totals, recs, i, factor) ==
    IF i > Len(recs)
    THEN totals
    ELSE AggregateLoop(AggregateOne(totals, recs[i], factor), recs, i + 1, factor)

\* faulty variant: the net benefit is averaged over the recommendations
aggregate_total_benefits_averaged(recs, confidence_level) ==
    IF Len(recs) = 0
    THEN ZeroDivisionError
    ELSE LET totals == AggregateLoop(InitialTotals(recs, confidence_level), recs, 1,
                                     ConfidenceFactor(confidence_level))
         IN  [totals EXCEPT !.total_net_benefit = RDiv(@, RInt(Len(recs)))]

aggregate_total_benefits(recs, confidence_level) ==
    AggregateLoop(InitialTotals(recs, confidence_level), recs, 1,
                  ConfidenceFactor(confidence_level))

-----------------------------------------------------------------------------
(* Arguments of aggregate_total_benefits: lists of at most MaxRecs         *)
(* recommendations, each a dict that may lack any of its keys.             *)

MaxRecs == 2

\* impact_data dicts of the shapes the impact models and the generators
\* produce, and dicts that lack net_benefit_monthly or carry it as zero
ImpactDicts ==
    { [monthly_savings |-> RInt(80), additional_conversions_monthly |-> Zero,
       additional_revenue_monthly |-> Zero],
      [monthly_savings |-> Zero, additional_conversions_monthly |-> RInt(8),
       additional_spend_monthly |-> RInt(88), additional_revenue_monthly |-> RInt(1600),
       net_benefit_monthly |-> RInt(1512)],
      [monthly_savings |-> Zero, additional_conversions_monthly |-> Zero,
       additional_revenue_monthly |-> Zero],
      [monthly_savings |-> RInt(60), conversions_lost_monthly |-> Rat(16, 5),
       additional_conversions_monthly |-> Rat(-4, 5), net_benefit_monthly |-> RInt(60)],
      [monthly_savings |-> Zero, additional_conversions_monthly |-> Rat(6, 5)],
      [additional_spend_monthly |-> RInt(50)],
      [additional_revenue_monthly |-> RInt(120), additional_spend_monthly |-> RInt(50)],
      [monthly_savings |-> RInt(80), additional_revenue_monthly |-> RInt(120),
       additional_spend_monthly |-> RInt(50), net_benefit_monthly |-> Zero],
      [monthly_savings |-> Zero, additional_conversions_monthly |-> RInt(1),
       additional_spend_monthly |-> RInt(50), additional_revenue_monthly |-> RInt(50),
       net_benefit_monthly |-> Zero],
      [monthly_savings |-> Zero, additional_conversions_monthly |-> Zero,
       additional_spend_monthly |-> RInt(50), additional_revenue_monthly |-> Zero,
       net_benefit_monthly |-> RInt(-50)],
      [monthly_savings |-> Zero, additional_revenue_monthly |-> Zero,
       additional_spend_monthly |-> RInt(50), net_benefit_monthly |-> Zero] }

ExclusionImpactDict == calculate_exclusion_impact(RInt(20), Zero)

AggRecDomain ==
    { [type |-> "audience_exclusion", priority |-> "high",
       automation |-> [is_automatable |-> TRUE], impact_data |-> i] : i \in ImpactDicts }
    \cup
    { [type |-> "audience_exclusion", priority |-> "high",
       automation |-> [is_automatable |-> TRUE]],
      [type |-> "budget_scaling", priority |-> "medium",
       automation |-> [is_automatable |-> FALSE], impact_data |-> ExclusionImpactDict],
      [type |-> "landing_page", priority |-> "low",
       automation |-> <<>>, impact_data |-> ExclusionImpactDict],
      [type |-> "creative_test", priority |-> "urgent",
       automation |-> [is_automatable |-> TRUE], impact_data |-> ExclusionImpactDict],
      [impact_data |-> ExclusionImpactDict] }

AggRecLists == UNION {[1..n -> AggRecDomain] : n \in 0..MaxRecs}
ConfidenceLevels == {"conservative", "moderate", "optimistic", "aggressive"}

IdleImpact ==
    /\ impactCall = [fn |-> "none"]
    /\ impactResult = [fn |-> "none"]

InitAggregate ==
    /\ IdleImpact
    /\ IdleAgg
    /\ IdleGen
    /\ IdleAnalyze
    /\ IdleReport
    /\ IdleFacebook
    /\ IdleGoogle
    /\ IdleJob

CallAggregate ==
    /\ aggLevel = "none"
    /\ \E recs \in AggRecLists, confidence_level \in ConfidenceLevels :
        /\ aggRecs' = recs
        /\ aggLevel' = confidence_level
        /\ aggTotals' = aggregate_total_benefits(recs, confidence_level)
        /\ UNCHANGED <<impactVars, genVars, anVars, reportVars, fbVars, gaVars, jobVars>>

NextAggregate == CallAggregate

SpecAggregate == InitAggregate /\ [][NextAggregate]_vars

-----------------------------------------------------------------------------
(* Properties of the aggregator, checked under SpecAggregate.              *)

AggCalled == aggLevel # "none"
AggReturned == AggCalled /\ "raised" \notin DOMAIN aggTotals

\* the sum over the list of one raw impact_data value, missing keys counting as 0
RECURSIVE RawSum(_, _, _)
RawSum(recs, key, i) ==
    IF i > Len(recs)
    THEN Zero
    ELSE RAdd(Get(Get(recs[i], "impact_data", <<>>), key, Zero), RawSum(recs, key, i + 1))

\* the scenario factors, in tenths
FactorTenths(level) ==
    CASE level = "conservative" -> 5
      [] level = "moderate" -> 7
      [] level = "optimistic" -> 10

\* total = factor * unscaled
IsScaled(total, tenths, unscaled) == RMul(total, RInt(10)) = RMul(unscaled, RInt(tenths))

\* C7: for a non-empty list, each total of aggregate_total_benefits is the
\* unscaled sum multiplied by the scenario factor 0.5 / 0.7 / 1.0, and the
\* optimistic total_monthly_savings is twice the conservative one.
TotalsLinearInConfidenceFactor ==
    (AggCalled /\ Len(aggRecs) > 0 /\ aggLevel \in {"conservative", "moderate", "optimistic"}) =>
        LET k == FactorTenths(aggLevel)
            optimistic == aggregate_total_benefits(aggRecs, "optimistic")
            conservative == aggregate_total_benefits(aggRecs, "conservative")
        IN  /\ "raised" \notin DOMAIN aggTotals
            /\ IsScaled(aggTotals.total_monthly_savings, k,
                        RawSum(aggRecs, "monthly_savings", 1))
            /\ IsScaled(aggTotals.total_additional_conversions, k,
                        RawSum(aggRecs, "additional_conversions_monthly", 1))
            /\ IsScaled(aggTotals.total_additional_revenue, k,
                        RawSum(aggRecs, "additional_revenue_monthly", 1))
            /\ IsScaled(aggTotals.total_additional_spend, k,
                        RawSum(aggRecs, "additional_spend_monthly", 1))
            /\ IsScaled(aggTotals.total_net_benefit, k, optimistic.total_net_benefit)
            /\ aggLevel = "optimistic" =>
                   aggTotals.total_monthly_savings
                       = RMul(RInt(2), conservative.total_monthly_savings)

\* C7 witness: an optimistic aggregate of two recommendations with savings
OptimisticSavingsReached ==
    /\ AggReturned
    /\ aggLevel = "optimistic"
    /\ Len(aggRecs) = 2
    /\ aggTotals.total_monthly_savings = RInt(140)
    /\ aggregate_total_benefits(aggRecs, "conservative").total_monthly_savings = RInt(70)

\* the net benefit the fallback rule gives one recommendation
ExpectedNet(rec, factor) ==
    LET impact_data == Get(rec, "impact_data", <<>>)
        savings == Get(impact_data, "monthly_savings", Zero)
        revenue == Get(impact_data, "additional_revenue_monthly", Zero)
        spend == Get(impact_data, "additional_spend_monthly", Zero)
        net == Get(impact_data, "net_benefit_monthly", Zero)
    IN  IF RIsZero(net) /\ (~RIsZero(savings) \/ ~RIsZero(revenue) \/ ~RIsZero(spend))
        THEN RMul(RSub(RAdd(savings, revenue), spend), factor)
        ELSE RMul(net, factor)

RECURSIVE ExpectedNetSum(_, _, _)
ExpectedNetSum(recs, factor, i) ==
    IF i > Len(recs)
    THEN Zero
    ELSE RAdd(ExpectedNet(recs[i], factor), ExpectedNetSum(recs, factor, i + 1))

\* C8: every recommendation whose net_benefit_monthly is absent or zero while one
\* of monthly_savings, additional_revenue_monthly, additional_spend_monthly is
\* non-zero adds (savings + revenue - spend) * factor to total_net_benefit, also
\* when only additional_spend_monthly is non-zero.
NetBenefitSynthesizedFromComponents ==
    AggReturned =>
        aggTotals.total_net_benefit
            = ExpectedNetSum(aggRecs, aggTotals.confidence_factor, 1)

\* C9: aggregate_total_benefits([], level) returns, for every level, zero
\* recommendations, five zero totals, zero automatable and manual counts, an
\* empty breakdown_by_type and an all-zero breakdown_by_priority, and no error.
EmptyListGivesZeroTotals ==
    (AggCalled /\ Len(aggRecs) = 0) =>
        /\ "raised" \notin DOMAIN aggTotals
        /\ aggTotals.total_recommendations = 0
        /\ aggTotals.total_monthly_savings.n = 0
        /\ aggTotals.total_additional_conversions.n = 0
        /\ aggTotals.total_additional_revenue.n = 0
        /\ aggTotals.total_additional_spend.n = 0
        /\ aggTotals.total_net_benefit.n = 0
        /\ aggTotals.automatable_count = 0
        /\ aggTotals.manual_count = 0
        /\ DOMAIN aggTotals.breakdown_by_type = {}
        /\ \A p \in {"high", "medium", "low"} : aggTotals.breakdown_by_priority[p] = 0

\* C9 witness: aggregate_total_benefits([], 'moderate') has returned
EmptyModerateReached ==
    /\ AggReturned
    /\ Len(aggRecs) = 0
    /\ aggLevel = "moderate"
    /\ aggTotals.total_recommendations = 0

-----------------------------------------------------------------------------
(* create_facebook_insights.py: generate_recommendations                   *)
(*                                                                         *)
(* An analysis is a dict of lists of items; an item carries the keys that  *)
(* decide whether a recommendation is made and with which priority, and    *)
(* the key it is named by.  A recommendation carries its type, priority    *)
(* and the name of the item it was made for (its expected_impact, reason,  *)
(* impact_data and automation values do not take part in the ordering).    *)

Min(a, b) == IF a < b THEN a ELSE b
\* s[:n]
Take(s, n) == SubSeq(s, 1, Min(n, Len(s)))

facebook_auto ==
    {"audience_exclusion", "creative_refresh", "placement_exclusion",
     "budget_adjustment", "geo_exclusion", "schedule_adjustment",
     "budget_scaling", "campaign_review", "roas_scaling", "roas_review",
     "geo_scaling", "day_schedule"}

facebook_manual_reasons ==
    [audience_fatigue |-> "Creating lookalike audiences requires strategic decisions",
     objective_mismatch |-> "Facebook API doesn't allow changing campaign objectives post-creation",
     creative_test |-> "A/B testing requires human creativity for new ad variations",
     landing_page |-> "Landing page optimization requires website CMS access"]

google_auto ==
    {"keyword_action", "bid_adjustment", "schedule_bid_adjustment",
     "geo_bid_adjustment", "geo_exclusion", "ad_copy"}

google_manual_reasons ==
    [quality_improvement |-> "Requires strategic improvements (landing page speed, ad relevance, promotional testing)",
     budget_pacing |-> "Informational only - no action required"]

get_automation_metadata(rec_type, platform) ==
    LET auto == IF platform = "facebook" THEN facebook_auto ELSE google_auto
        reasons == IF platform = "facebook"
                   THEN facebook_manual_reasons ELSE google_manual_reasons
        is_automatable == rec_type \in auto
    IN  [is_automatable |-> is_automatable,
         manual_reason |-> IF is_automatable THEN None ELSE Get(reasons, rec_type, None)]

\* the ad sets the exclusions can be applied to: the active ones with
\* conversions, or every active one when none has conversions
ActiveAdsets(ad_sets) ==
    LET converting == SelectSeq(ad_sets, LAMBDA a :
                          Get(a, "conversions", 0) > 0 /\ Get(a, "status", "none") = "ACTIVE")
    IN  IF Len(converting) > 0
        THEN converting
        ELSE SelectSeq(ad_sets, LAMBDA a : Get(a, "status", "none") = "ACTIVE")

\* max(active_adsets, key=(conversions, spend)): the first of the largest
RECURSIVE MaxAdset(_, _, _)
MaxAdset(adsets, i, best) ==
    IF i > Len(adsets)
    THEN best
    ELSE LET a == adsets[i]
             larger == \/ Get(a, "conversions", 0) > Get(best, "conversions", 0)
                       \/ /\ Get(a, "conversions", 0) = Get(best, "conversions", 0)
                          /\ Get(a, "spend", 0) > Get(best, "spend", 0)
         IN  MaxAdset(adsets, i + 1, IF larger THEN a ELSE best)

\* top_adset_id and top_adset_name, both None without an active ad set
TopAdset(metrics) ==
    LET active_adsets == ActiveAdsets(Get(metrics, "ad_sets", <<>>))
    IN  IF Len(active_adsets) > 0
        THEN LET top_adset == MaxAdset(active_adsets, 2, active_adsets[1])
             IN  [adset_id |-> Get(top_adset, "adset_id", None),
                  adset_name |-> Get(top_adset, "adset_name", None)]
        ELSE [adset_id |-> None, adset_name |-> None]

\* the name a missing name defaults to: ''
EmptyName == 0

default_avg_conv_rate == Rat(2, 100)
default_peak_multiplier == Rat(5, 2)
default_avg_cpa == RInt(50)

\* calculate_schedule_impact(wasted_hours_spend=...), the other arguments defaulted
ScheduleImpactByDefault(wasted) ==
    calculate_schedule_impact(wasted, default_avg_conv_rate, default_peak_multiplier,
                              default_avg_cpa, None)

\* the impact_data written in place for the budget recommendations
InformationalImpact(formula) ==
    [monthly_savings |-> Zero,
     additional_conversions_monthly |-> Zero,
     confidence |-> "low",
     confidence_pct |-> 50,
     formula |-> formula]

\* the impact_data written in place for an estimated rise in conversions
UpliftImpact(conversions, rate, confidence_pct) ==
    [monthly_savings |-> Zero,
     additional_conversions_monthly |-> RMul(RMul(RInt(conversions), rate), Weeks),
     confidence |-> "moderate",
     confidence_pct |-> confidence_pct]

\* faulty variant: the 85% estimate is labelled moderate
LossImpact_moderate(loss) ==
    [monthly_savings |-> RMul(RInt(loss), Weeks),
     additional_conversions_monthly |-> Zero,
     confidence |-> "moderate",
     confidence_pct |-> 85]

\* the impact_data written in place for a campaign that loses money
LossImpact(loss) ==
    [monthly_savings |-> RMul(RInt(loss), Weeks),
     additional_conversions_monthly |-> Zero,
     confidence |-> "high",
     confidence_pct |-> 85]

\* 1. audience_analysis['wasted_segments'][:3]
AudienceExclusionRecs(audience_analysis, top) ==
    LET segs == Take(Get(audience_analysis, "wasted_segments", <<>>), 3)
    IN  [i \in 1..Len(segs) |->
            [type |-> "audience_exclusion",
             action |-> [text |-> "Exclude ", name |-> segs[i].segment],
             priority |-> "high",
             segment |-> segs[i].segment,
             segment_type |-> segs[i].type,
             adset_id |-> top.adset_id,
             adset_name |-> top.adset_name,
             impact_data |-> calculate_exclusion_impact(RInt(segs[i].spend), Zero),
             automation |-> get_automation_metadata("audience_exclusion", "facebook")]]

\* 2. creative_analysis['fatigued_ads'][:3]
CreativeRefreshRecs(creative_analysis) ==
    LET ads == Take(Get(creative_analysis, "fatigued_ads", <<>>), 3)
    IN  [i \in 1..Len(ads) |->
            [type |-> "creative_refresh",
             action |-> [text |-> "Refresh ad: ", name |-> ads[i].ad_name],
             priority |-> IF Get(ads[i], "fatigue_level", "warning") = "critical"
                          THEN "high" ELSE "medium",
             ad_name |-> ads[i].ad_name,
             campaign_name |-> Get(ads[i], "campaign_name", EmptyName),
             impact_data |->
                 calculate_creative_refresh_impact(
                     RInt(Get(ads[i], "spend", 0)), RInt(Get(ads[i], "frequency", 1)),
                     Rat(Get(ads[i], "ctr", 0), 100), RInt(Get(ads[i], "conversions", 0)),
                     None),
             automation |-> get_automation_metadata("creative_refresh", "facebook")]]

\* 3. placement_analysis['placements'], until three recommendations are made
RECURSIVE PlacementExclusionLoop(_, _, _, _)
PlacementExclusionLoop(placements, i, recs, top) ==
    IF i > Len(placements)
    THEN recs
    ELSE LET pl == placements[i]
         IN  IF Get(pl, "efficiency", "none") = "poor" /\ pl.spend > 10
             THEN LET rec == [type |-> "placement_exclusion",
                              action |-> [text |-> "Remove placement: ",
                                          name |-> pl.placement_name],
                              priority |-> IF pl.spend > 50 THEN "high" ELSE "medium",
                              placement |-> pl.placement_name,
                              adset_id |-> top.adset_id,
                              adset_name |-> top.adset_name,
                              impact_data |-> calculate_exclusion_impact(RInt(pl.spend), Zero),
                              automation |->
                                  get_automation_metadata("placement_exclusion", "facebook")]
                      next == Append(recs, rec)
                  IN  IF Len(next) >= 3
                      THEN next
                      ELSE PlacementExclusionLoop(placements, i + 1, next, top)
             ELSE PlacementExclusionLoop(placements, i + 1, recs, top)

PlacementExclusionRecs(placement_analysis, top) ==
    PlacementExclusionLoop(Get(placement_analysis, "placements", <<>>), 1, <<>>, top)

\* 4. budget_analysis['campaign_pacing'], every entry
RECURSIVE BudgetAdjustmentLoop(_, _, _)
BudgetAdjustmentLoop(pacings, i, recs) ==
    IF i > Len(pacings)
    THEN recs
    ELSE LET pacing == pacings[i]
             status == Get(pacing, "status", "none")
             automation == get_automation_metadata("budget_adjustment", "facebook")
         IN  IF status = "underspending"
             THEN BudgetAdjustmentLoop(pacings, i + 1,
                      Append(recs,
                          [type |-> "budget_adjustment",
                           action |-> [text |-> "Increase budget for ",
                                       name |-> pacing.campaign_name],
                           priority |-> "medium",
                           campaign_name |-> pacing.campaign_name,
                           impact_data |-> InformationalImpact(
                               "Informational - results depend on campaign quality"),
                           automation |-> automation]))
             ELSE IF status = "overspending"
             THEN BudgetAdjustmentLoop(pacings, i + 1,
                      Append(recs,
                          [type |-> "budget_adjustment",
                           action |-> [text |-> "Review overspend on ",
                                       name |-> pacing.campaign_name],
                           priority |-> "low",
                           campaign_name |-> pacing.campaign_name,
                           impact_data |-> InformationalImpact("Informational - review needed"),
                           automation |-> automation]))
             ELSE BudgetAdjustmentLoop(pacings, i + 1, recs)

BudgetAdjustmentRecs(budget_analysis) ==
    BudgetAdjustmentLoop(Get(budget_analysis, "campaign_pacing", <<>>), 1, <<>>)

\* 5. geo_analysis['poor_locations'][:2]
GeoExclusionRecs(geo_analysis, top) ==
    LET locs == Take(Get(geo_analysis, "poor_locations", <<>>), 2)
    IN  [i \in 1..Len(locs) |->
            [type |-> "geo_exclusion",
             action |-> [text |-> "Exclude or reduce spend in ", name |-> locs[i].location],
             priority |-> "medium",
             location |-> locs[i].location,
             adset_id |-> top.adset_id,
             adset_name |-> top.adset_name,
             region_key |-> Get(locs[i], "region_key", None),
             impact_data |-> calculate_exclusion_impact(RInt(locs[i].spend), Zero),
             automation |-> get_automation_metadata("geo_exclusion", "facebook")]]

RECURSIVE SumSpend(_, _)
SumSpend(items, i) == IF i > Len(items) THEN 0 ELSE items[i].spend + SumSpend(items, i + 1)

\* the hours of time_analysis['best_hours'], or else the hour of best_hour
PeakHours(time_analysis) ==
    LET best_hours_list == Get(time_analysis, "best_hours", <<>>)
        peak_hours == [i \in 1..Len(best_hours_list) |-> best_hours_list[i].hour]
    IN  IF Len(peak_hours) > 0 THEN peak_hours ELSE << time_analysis.best_hour.hour >>

\* 6. one schedule recommendation when the worst hours wasted more than 10
ScheduleAdjustmentRecs(time_analysis, top) ==
    LET best_hour == Get(time_analysis, "best_hour", <<>>)
        worst_hours == Get(time_analysis, "worst_hours", <<>>)
        wasted_in_worst == SumSpend(worst_hours, 1)
    IN  IF DOMAIN best_hour # {} /\ Len(worst_hours) > 0 /\ wasted_in_worst > 10
        THEN << [type |-> "schedule_adjustment",
                 action |-> [text |-> "Focus budget on peak hours (around ",
                             name |-> best_hour.hour_label],
                 priority |-> "medium",
                 adset_id |-> top.adset_id,
                 adset_name |-> top.adset_name,
                 best_hours |-> PeakHours(time_analysis),
                 impact_data |-> ScheduleImpactByDefault(RInt(wasted_in_worst)),
                 automation |-> get_automation_metadata("schedule_adjustment", "facebook")] >>
        ELSE <<>>

top_performer_scale_factor == Rat(125, 100)

\* 7. top_perf_analysis: scale_candidates[:3], then review_candidates[:2]
TopPerformerRecs(top_perf_analysis) ==
    IF DOMAIN top_perf_analysis = {}
    THEN <<>>
    ELSE LET scale == Take(Get(top_perf_analysis, "scale_candidates", <<>>), 3)
             review == Take(Get(top_perf_analysis, "review_candidates", <<>>), 2)
         IN  [i \in 1..Len(scale) |->
                 [type |-> "budget_scaling",
                  action |-> [text |-> "Scale budget for ", name |-> scale[i].name],
                  priority |-> "high",
                  campaign_name |-> scale[i].name,
                  impact_data |->
                      calculate_scaling_impact(RInt(Get(scale[i], "spend", 0)),
                                               RInt(Get(scale[i], "conversions", 0)),
                                               top_performer_scale_factor, None),
                  automation |-> get_automation_metadata("budget_scaling", "facebook")]]
             \o [i \in 1..Len(review) |->
                 [type |-> "campaign_review",
                  action |-> [text |-> "Review or pause ", name |-> review[i].name],
                  priority |-> "high",
                  campaign_name |-> review[i].name,
                  impact_data |->
                      calculate_exclusion_impact(RInt(Get(review[i], "spend", 0)), Zero),
                  automation |-> get_automation_metadata("campaign_review", "facebook")]]

\* 8. fatigue_analysis['fatigued_campaigns'][:2]
AudienceFatigueRecs(fatigue_analysis) ==
    LET camps == Take(Get(fatigue_analysis, "fatigued_campaigns", <<>>), 2)
    IN  [i \in 1..Len(camps) |->
            [type |-> "audience_fatigue",
             action |-> [text |-> "Expand audience for ", name |-> camps[i].campaign_name],
             priority |-> IF camps[i].severity = "critical" THEN "high" ELSE "medium",
             campaign_name |-> camps[i].campaign_name,
             impact_data |-> UpliftImpact(Get(camps[i], "conversions", 0), Rat(15, 100), 65),
             automation |-> get_automation_metadata("audience_fatigue", "facebook")]]

\* 9. one day-of-week recommendation when there are wasted days
DayScheduleRecs(dow_analysis) ==
    LET wasted_days == Get(dow_analysis, "wasted_days", <<>>)
        days == [i \in 1..Len(Take(wasted_days, 3)) |-> wasted_days[i].day]
        total_wasted == Get(dow_analysis, "total_wasted_on_days", 0)
    IN  IF Len(wasted_days) > 0
        THEN << [type |-> "day_schedule",
                 action |-> [text |-> "Reduce spend on ", name |-> days],
                 priority |-> "medium",
                 impact_data |-> ScheduleImpactByDefault(RInt(total_wasted)),
                 automation |-> get_automation_metadata("day_schedule", "facebook"),
                 wasted_days |-> days] >>
        ELSE <<>>

\* 10. objective_analysis['mismatches'][:2], priority taken from the mismatch
ObjectiveMismatchRecs(objective_analysis) ==
    LET mismatches == Take(Get(objective_analysis, "mismatches", <<>>), 2)
    IN  [i \in 1..Len(mismatches) |->
            [type |-> "objective_mismatch",
             action |-> [text |-> "Switch ", name |-> mismatches[i].campaign_name],
             priority |-> Get(mismatches[i], "priority", "medium"),
             campaign_name |-> mismatches[i].campaign_name,
             impact_data |->
                 UpliftImpact(Get(mismatches[i], "conversions", 0), Rat(20, 100), 65),
             automation |-> get_automation_metadata("objective_mismatch", "facebook")]]

roas_customer_value == RInt(200)
roas_scale_factor == Rat(130, 100)

\* 11. roas_analysis: scale_opportunities[:2], then review_opportunities[:2]
RoasRecs(roas_analysis) ==
    IF DOMAIN roas_analysis = {}
    THEN <<>>
    ELSE LET scale == Take(Get(roas_analysis, "scale_opportunities", <<>>), 2)
             review == Take(Get(roas_analysis, "review_opportunities", <<>>), 2)
         IN  [i \in 1..Len(scale) |->
                 [type |-> "roas_scaling",
                  action |-> [text |-> "Scale ", name |-> scale[i].name],
                  priority |-> "high",
                  impact_data |->
                      calculate_scaling_impact(
                          RInt(Get(scale[i], "spend", 0)),
                          RDiv(RInt(Get(scale[i], "conversion_value", 0)), roas_customer_value),
                          roas_scale_factor, roas_customer_value),
                  automation |-> get_automation_metadata("roas_scaling", "facebook")]]
             \o [i \in 1..Len(review) |->
                 [type |-> "roas_review",
                  action |-> [text |-> "Review ", name |-> review[i].name],
                  priority |-> "high",
                  impact_data |-> LossImpact(Get(review[i], "loss", 0)),
                  automation |-> get_automation_metadata("roas_review", "facebook")]]

\* 12. creative_pattern_analysis['test_suggestions'][:2]
CreativeTestRecs(creative_pattern_analysis) ==
    LET suggestions == Take(Get(creative_pattern_analysis, "test_suggestions", <<>>), 2)
    IN  [i \in 1..Len(suggestions) |->
            [type |-> "creative_test",
             action |-> [text |-> "A/B Test: ", name |-> suggestions[i].type],
             reason |-> suggestions[i].suggestion,
             priority |-> "medium",
             impact_data |-> UpliftImpact(0, Zero, 60),
             automation |-> get_automation_metadata("creative_test", "facebook")]]

\* 13. geo_bid_analysis['scale_locations'][:2]
GeoScalingRecs(geo_bid_analysis) ==
    LET locs == Take(Get(geo_bid_analysis, "scale_locations", <<>>), 2)
    IN  [i \in 1..Len(locs) |->
            [type |-> "geo_scaling",
             action |-> [text |-> "Increase spend in ", name |-> locs[i].location],
             priority |-> "medium",
             location |-> locs[i].location,
             impact_data |->
                 calculate_scaling_impact(RInt(Get(locs[i], "spend", 0)),
                                          RInt(Get(locs[i], "conversions", 0)),
                                          geo_scale_factor, None),
             automation |-> get_automation_metadata("geo_scaling", "facebook")]]

\* 14. landing_page_analysis['issues'][:2]
LandingPageRecs(landing_page_analysis) ==
    LET issues == Take(Get(landing_page_analysis, "issues", <<>>), 2)
    IN  [i \in 1..Len(issues) |->
            [type |-> "landing_page",
             action |-> [text |-> "Optimize landing page: ", name |-> issues[i].url],
             priority |-> "medium",
             impact_data |-> UpliftImpact(Get(issues[i], "conversions", 0), Rat(30, 100), 65),
             automation |-> get_automation_metadata("landing_page", "facebook")]]

\* the local list `recommendations` when the fourteen steps are done, before the sort
GeneratedList(a) ==
    LET top == TopAdset(a.metrics)
    IN  AudienceExclusionRecs(a.audience_analysis, top)
        \o CreativeRefreshRecs(a.creative_analysis)
        \o PlacementExclusionRecs(a.placement_analysis, top)
        \o BudgetAdjustmentRecs(a.budget_analysis)
        \o GeoExclusionRecs(a.geo_analysis, top)
        \o ScheduleAdjustmentRecs(a.time_analysis, top)
        \o TopPerformerRecs(a.top_perf_analysis)
        \o AudienceFatigueRecs(a.fatigue_analysis)
        \o DayScheduleRecs(a.dow_analysis)
        \o ObjectiveMismatchRecs(a.objective_analysis)
        \o RoasRecs(a.roas_analysis)
        \o CreativeTestRecs(a.creative_pattern_analysis)
        \o GeoScalingRecs(a.geo_bid_analysis)
        \o LandingPageRecs(a.landing_page_analysis)

priority_order == [high |-> 0, medium |-> 1, low |-> 2]

\* the sort key: priority_order.get(x.get('priority', 'low'), 2)
PriorityKey(rec) == Get(priority_order, Get(rec, "priority", "low"), 2)

Reverse(s) == [i \in 1..Len(s) |-> s[Len(s) + 1 - i]]

\* faulty variant: a sort that does not keep the order of equal keys
SortByPriority_unstable(recs) ==
    Reverse(SelectSeq(recs, LAMBDA r : PriorityKey(r) = 0))
    \o Reverse(SelectSeq(recs, LAMBDA r : PriorityKey(r) = 1))
    \o Reverse(SelectSeq(recs, LAMBDA r : PriorityKey(r) = 2))

\* list.sort(key=...): ascending by key, equal keys keep their order
SortByPriority(recs) ==
    SelectSeq(recs, LAMBDA r : PriorityKey(r) = 0)
    \o SelectSeq(recs, LAMBDA r : PriorityKey(r) = 1)
    \o SelectSeq(recs, LAMBDA r : PriorityKey(r) = 2)

MaxRecommendations == 20

\* faulty variant: the list is cut to the cap before it is sorted
generate_recommendations_cut_first(a) ==
    SortByPriority(Take(GeneratedList(a), MaxRecommendations))

generate_recommendations(a) == Take(SortByPriority(GeneratedList(a)), MaxRecommendations)

-----------------------------------------------------------------------------
(* apply_facebook_recommendations.py: how apply_recommendation finds the   *)
(* campaign, ad set or ad a recommendation is applied to.                  *)

\* rec.get(key) is a non-empty name
HasName(rec, key) == key \in DOMAIN rec /\ rec[key] # EmptyName
\* rec.get(key) is an id or name that is not None
HasId(rec, key) == key \in DOMAIN rec /\ ~IsNone(rec[key])

\* 'Scale ' in action, 'Review ' in action
ActionHas(rec, text) == "action" \in DOMAIN rec /\ rec.action.text = text

\* where the target comes from: a field of the record ("field"), the action
\* text ("action_text"), the account's first active campaign or ad set
\* ("first_active"), nowhere ("none"); "manual" and "unknown" apply nothing
TargetSource(rec) ==
    LET rec_type == Get(rec, "type", "none")
        by_adset == IF HasId(rec, "adset_id") \/ HasId(rec, "adset_name")
                    THEN "field" ELSE "none"
    IN  CASE rec_type \in {"budget_adjustment", "budget_scaling", "campaign_review"} ->
                 IF HasName(rec, "campaign_name") THEN "field" ELSE "none"
          [] rec_type \in {"audience_exclusion", "placement_exclusion", "geo_exclusion",
                           "schedule_adjustment"} -> by_adset
          [] rec_type = "creative_refresh" ->
                 IF HasName(rec, "ad_name") THEN "field" ELSE "none"
          [] rec_type = "roas_scaling" ->
                 IF HasName(rec, "campaign_name") \/ HasName(rec, "name") THEN "field"
                 ELSE IF ActionHas(rec, "Scale ") THEN "action_text" ELSE "none"
          [] rec_type = "roas_review" ->
                 IF HasName(rec, "campaign_name") \/ HasName(rec, "name") THEN "field"
                 ELSE IF ActionHas(rec, "Review ") THEN "action_text" ELSE "none"
          [] rec_type = "geo_scaling" ->
                 IF HasName(rec, "campaign_name") THEN "field" ELSE "first_active"
          [] rec_type = "day_schedule" ->
                 IF ~ActionHas(rec, "Reduce spend on ") THEN "none"
                 ELSE IF by_adset = "field" THEN "field" ELSE "first_active"
          [] rec_type \in {"audience_fatigue", "objective_mismatch", "creative_test",
                           "landing_page"} -> "manual"
          [] OTHER -> "unknown"

-----------------------------------------------------------------------------
(* Arguments of generate_recommendations.  The analyses hold at most       *)
(* MaxExtraItems chosen items in all, in front of either nothing or a      *)
(* fixed account whose every list is longer than the generator's cut.      *)

MaxExtraItems == 2

\* the lists of the analyses, in the order the generator reads them
ListNames ==
    << "wasted_segments", "fatigued_ads", "placements", "campaign_pacing",
       "poor_locations", "worst_hours", "scale_candidates", "review_candidates",
       "fatigued_campaigns", "wasted_days", "mismatches", "scale_opportunities",
       "review_opportunities", "test_suggestions", "scale_locations", "issues" >>

\* the key an item of a list is named by
NameKey ==
    << "segment", "ad_name", "placement_name", "campaign_name", "location", "hour",
       "name", "name", "campaign_name", "day", "campaign_name", "name", "name",
       "suggestion", "location", "url" >>

\* the keys every item of list l carries, as its analyzer writes them
BaseKeys(l) ==
    CASE l = 1 -> [type |-> "demographic", spend |-> 20]
      [] l = 2 -> [campaign_name |-> 1, ctr |-> 1, spend |-> 20]
      [] l = 5 -> [spend |-> 20, clicks |-> 8]
      [] l = 7 -> [spend |-> 100, conversions |-> 5]
      [] l = 8 -> [spend |-> 60, clicks |-> 12]
      [] l = 10 -> [spend |-> 20]
      [] l = 11 -> [conversions |-> 3]
      [] l = 12 -> [spend |-> 100, conversion_value |-> 400]
      [] l = 13 -> [spend |-> 100, loss |-> 30]
      [] l = 14 -> [type |-> "cta_test"]
      [] l = 15 -> [spend |-> 50, conversions |-> 2]
      [] l = 16 -> [spend |-> 40]
      [] OTHER -> <<>>

\* the other keys an item of list l can carry
ItemKinds(l) ==
    CASE l = 2 -> { [fatigue_level |-> "critical", frequency |-> 6],
                    [fatigue_level |-> "warning", frequency |-> 4],
                    [fatigue_level |-> "warning", frequency |-> 2],
                    [frequency |-> 4] }
      [] l = 3 -> { [efficiency |-> "poor", spend |-> 60], [efficiency |-> "poor", spend |-> 30],
                    [efficiency |-> "poor", spend |-> 5], [efficiency |-> "good", spend |-> 60] }
      [] l = 4 -> { [status |-> "underspending"], [status |-> "overspending"],
                    [status |-> "on_track"] }
      [] l = 6 -> { [spend |-> 6] }
      [] l = 9 -> { [severity |-> "critical"], [severity |-> "warning"] }
      [] l = 11 -> { [priority |-> "high"], [priority |-> "low"], [priority |-> "urgent"], <<>> }
      [] OTHER -> { <<>> }

ExtraItem == UNION { { [list |-> l, keys |-> k] : k \in ItemKinds(l) } : l \in 1..Len(ListNames) }

\* the chosen items, list by list
ExtraItemLists ==
    { s \in UNION { [1..n -> ExtraItem] : n \in 0..MaxExtraItems } :
        \A i \in 1..(Len(s) - 1) : s[i].list <= s[i + 1].list }

\* the fixed account: the items of list l
AccountKinds(l) ==
    CASE l = 2 -> << [fatigue_level |-> "warning", frequency |-> 4],
                     [fatigue_level |-> "critical", frequency |-> 6],
                     [fatigue_level |-> "warning", frequency |-> 2],
                     [fatigue_level |-> "critical", frequency |-> 6] >>
      [] l = 3 -> << [efficiency |-> "poor", spend |-> 30], [efficiency |-> "good", spend |-> 60],
                     [efficiency |-> "poor", spend |-> 60], [efficiency |-> "poor", spend |-> 30],
                     [efficiency |-> "poor", spend |-> 60] >>
      [] l = 4 -> << [status |-> "overspending"], [status |-> "underspending"],
                     [status |-> "on_track"], [status |-> "underspending"] >>
      [] l = 6 -> << [spend |-> 6], [spend |-> 6] >>
      [] l = 9 -> << [severity |-> "warning"], [severity |-> "critical"],
                     [severity |-> "critical"] >>
      [] l = 11 -> << [priority |-> "low"], <<>>, [priority |-> "high"] >>
      [] OTHER -> << <<>>, <<>>, <<>>, <<>> >>

\* the items of list l: the chosen ones, named by their place among the chosen
\* items, then the fixed account's, named from 100 * l on
ItemsOf(extras, account, l) ==
    LET idx == SelectSeq([i \in 1..Len(extras) |-> i], LAMBDA i : extras[i].list = l)
        chosen == [j \in 1..Len(idx) |->
                      (NameKey[l] :> idx[j]) @@ extras[idx[j]].keys @@ BaseKeys(l)]
        fixed == IF account
                 THEN [j \in 1..Len(AccountKinds(l)) |->
                          (NameKey[l] :> (100 * l + j)) @@ AccountKinds(l)[j] @@ BaseKeys(l)]
                 ELSE <<>>
    IN  chosen \o fixed

\* metrics['ad_sets'] of the fixed account: the second ad set converts best
AccountAdSets ==
    << [adset_id |-> RInt(11), adset_name |-> RInt(21), status |-> "ACTIVE",
        conversions |-> 2, spend |-> 90],
       [adset_id |-> RInt(12), adset_name |-> RInt(22), status |-> "ACTIVE",
        conversions |-> 7, spend |-> 40],
       [adset_id |-> RInt(13), adset_name |-> RInt(23), status |-> "PAUSED",
        conversions |-> 9, spend |-> 10] >>

\* metrics['ad_sets'] of an account without the fixed items: no ad sets, none
\* active, active ones without conversions, or an active one fetched without its name
AdSetLists ==
    { <<>>,
      << [adset_id |-> RInt(13), adset_name |-> RInt(23), status |-> "PAUSED",
          conversions |-> 9, spend |-> 10] >>,
      << [adset_id |-> RInt(11), adset_name |-> RInt(21), status |-> "ACTIVE", spend |-> 10],
         [adset_id |-> RInt(12), adset_name |-> RInt(22), status |-> "ACTIVE", spend |-> 30] >>,
      << [adset_id |-> RInt(14), status |-> "ACTIVE", conversions |-> 1, spend |-> 10] >> }

\* the analyses passed to generate_recommendations
Analyses(extras, account, ad_sets) ==
    LET L(l) == ItemsOf(extras, account, l)
    IN  [metrics |-> [ad_sets |-> ad_sets],
         audience_analysis |-> [wasted_segments |-> L(1)],
         creative_analysis |-> [fatigued_ads |-> L(2)],
         placement_analysis |-> [placements |-> L(3)],
         budget_analysis |-> [campaign_pacing |-> L(4)],
         geo_analysis |-> [poor_locations |-> L(5)],
         time_analysis |->
             [best_hour |-> IF Len(L(6)) > 0
                            THEN [hour |-> L(6)[1].hour, hour_label |-> L(6)[1].hour,
                                  clicks |-> 9]
                            ELSE <<>>,
              worst_hours |-> L(6)],
         top_perf_analysis |-> [scale_candidates |-> L(7), review_candidates |-> L(8)],
         fatigue_analysis |-> [fatigued_campaigns |-> L(9)],
         dow_analysis |-> [wasted_days |-> L(10), total_wasted_on_days |-> SumSpend(L(10), 1)],
         objective_analysis |-> [mismatches |-> L(11)],
         roas_analysis |-> [scale_opportunities |-> L(12), review_opportunities |-> L(13)],
         creative_pattern_analysis |-> [test_suggestions |-> L(14)],
         geo_bid_analysis |-> [scale_locations |-> L(15)],
         landing_page_analysis |-> [issues |-> L(16)]]

InitGenerate ==
    /\ IdleImpact
    /\ IdleAgg
    /\ IdleAnalyze
    /\ IdleReport
    /\ IdleFacebook
    /\ IdleGoogle
    /\ IdleJob
    /\ \E extras \in ExtraItemLists, account \in BOOLEAN :
           \E ad_sets \in (IF account THEN {AccountAdSets} ELSE AdSetLists) :
               genInput = Analyses(extras, account, ad_sets)
    /\ genPc = "idle"
    /\ recommendations = <<>>

CallGenerate ==
    /\ genPc = "idle"
    /\ recommendations' = generate_recommendations(genInput)
    /\ genPc' = "returned"
    /\ UNCHANGED <<impactVars, aggVars, genInput, anVars, reportVars, fbVars, gaVars, jobVars>>

NextGenerate == CallGenerate

SpecGenerate == InitGenerate /\ [][NextGenerate]_vars

-----------------------------------------------------------------------------
(* Properties of the generator, checked under SpecGenerate.                *)

\* the generation step (1..14) that makes recommendations of a type
StepOfType ==
    [audience_exclusion |-> 1, creative_refresh |-> 2, placement_exclusion |-> 3,
     budget_adjustment |-> 4, geo_exclusion |-> 5, schedule_adjustment |-> 6,
     budget_scaling |-> 7, campaign_review |-> 7, audience_fatigue |-> 8,
     day_schedule |-> 9, objective_mismatch |-> 10, roas_scaling |-> 11,
     roas_review |-> 11, creative_test |-> 12, geo_scaling |-> 13, landing_page |-> 14]

\* the places, in the list as it was generated, of the recommendations returned
GeneratedAt ==
    LET generated == GeneratedList(genInput)
    IN  [k \in 1..Len(recommendations) |->
            CHOOSE p \in 1..Len(generated) : generated[p] = recommendations[k]]

\* C10: two recommendations of the same priority that both appear in the output
\* of generate_recommendations stand in the order in which they were generated,
\* so one made by an earlier generation step comes first.
SamePriorityKeepsGenerationOrder ==
    genPc = "returned" =>
        LET at == GeneratedAt
        IN  \A i, j \in 1..Len(recommendations) :
                (i < j /\ recommendations[i].priority = recommendations[j].priority) =>
                    /\ at[i] < at[j]
                    /\ StepOfType[recommendations[i].type] <= StepOfType[recommendations[j].type]

\* C10 witness: the sort moved a recommendation forward, and two recommendations
\* of one priority made by different steps are both in the output
SortedAcrossStepsReached ==
    /\ genPc = "returned"
    /\ recommendations # Take(GeneratedList(genInput), MaxRecommendations)
    /\ LET at == GeneratedAt
       IN  \E i, j \in 1..Len(recommendations) :
               /\ i < j
               /\ recommendations[i].priority = recommendations[j].priority
               /\ recommendations[i].type # recommendations[j].type
               /\ at[j] > at[i] + 1

\* the recommendations that were generated and are not in the returned list
Dropped ==
    LET generated == GeneratedList(genInput)
        kept == {recommendations[k] : k \in 1..Len(recommendations)}
    IN  {generated[p] : p \in 1..Len(generated)} \ kept

\* C11: the list returned by generate_recommendations has at most 20 entries and
\* is non-decreasing in priority rank (high < medium < low), and no recommendation
\* left out by the cut has a strictly higher priority than one that is kept.
CappedAndOrderedByPriority ==
    genPc = "returned" =>
        /\ Len(recommendations) <= 20
        /\ \A i, j \in 1..Len(recommendations) :
               i < j => PriorityKey(recommendations[i]) <= PriorityKey(recommendations[j])
        /\ \A d \in Dropped : \A k \in 1..Len(recommendations) :
               PriorityKey(d) >= PriorityKey(recommendations[k])

\* C11 witness: more than 20 recommendations were generated, 20 are returned,
\* the returned list holds all three ranks, and a recommendation was left out
TruncatedToTwentyReached ==
    /\ genPc = "returned"
    /\ Len(GeneratedList(genInput)) > 20
    /\ Len(recommendations) = 20
    /\ Dropped # {}
    /\ PriorityKey(recommendations[1]) = 0
    /\ \E k \in 1..20 : PriorityKey(recommendations[k]) = 1

\* the impact estimates in the state: every returned recommendation's
\* impact_data, and the estimate an impact-model call returned
Estimates ==
    {recommendations[k].impact_data : k \in 1..Len(recommendations)}
    \cup (IF "confidence" \in DOMAIN impactResult THEN {impactResult} ELSE {})

\* C15 as stated: any two estimates with the same confidence label carry the
\* same confidence_pct, and any two with the same confidence_pct the same label.
ConfidenceLabelAndPctOneToOne ==
    \A e1, e2 \in Estimates :
        (e1.confidence = e2.confidence) <=> (e1.confidence_pct = e2.confidence_pct)

\* the label of a percentage
ConfidenceBand(pct) ==
    IF pct <= 50 THEN "low" ELSE IF pct <= 75 THEN "moderate" ELSE "high"

\* C15, amended: confidence_pct determines the confidence label (30 and 50 are
\* low, 60 to 75 moderate, 85 and 90 high), so two estimates with the same
\* confidence_pct carry the same label; a label does not determine the percentage.
ConfidenceLabelIsBandOfPct ==
    \A e \in Estimates :
        /\ e.confidence_pct \in {30, 50, 60, 65, 70, 75, 85, 90}
        /\ e.confidence = ConfidenceBand(e.confidence_pct)

\* C15 witness: a returned list holds two moderate estimates of different
\* percentage and a high one of 85
ModerateAtSeveralPctsReached ==
    /\ genPc = "returned"
    /\ \E e1, e2, e3 \in Estimates :
           /\ e1.confidence = "moderate" /\ e1.confidence_pct = 65
           /\ e2.confidence = "moderate" /\ e2.confidence_pct = 70
           /\ e3.confidence = "high" /\ e3.confidence_pct = 85

\* C16: every returned recommendation whose automation.is_automatable is true
\* carries the addressing field apply_recommendation reads for its kind, so its
\* target is resolved from the record's fields, not from the action text and not
\* by falling back to the first active campaign or ad set.
AutomatableRecsAddressTheirTarget ==
    genPc = "returned" =>
        \A k \in 1..Len(recommendations) :
            recommendations[k].automation.is_automatable =>
                TargetSource(recommendations[k]) = "field"


-----------------------------------------------------------------------------
(* analyze_facebook_insights.py: the analyzers.  A record is a dict whose  *)
(* keys may be missing; metrics are exact rationals, names are numbers.    *)

KeyError == [raised |-> "KeyError"]

\* round(x, 2) and round(x, 1)
Round2(a) == Rat(RoundHalfEven(RMul(a, RInt(100))), 100)
Round1(a) == Rat(RoundHalfEven(RMul(a, RInt(10))), 10)

\* [f(x) for x in s] where s[i].entry is f(x)
EntriesOf(s) == [i \in 1..Len(s) |-> s[i].entry]

\* sorted(s, key=..., reverse=...): keys[i] is the key of s[i]; equal keys keep
\* their order, also when reverse is set
SortedByKey(s, keys, reverse) ==
    LET n == Len(s)
        Before(i, j) == IF reverse THEN RGt(keys[i], keys[j]) ELSE RLt(keys[i], keys[j])
        rank(i) == Cardinality({j \in 1..n : Before(j, i)})
                   + Cardinality({j \in 1..(i - 1) : keys[j] = keys[i]}) + 1
    IN  [p \in 1..n |-> s[CHOOSE i \in 1..n : rank(i) = p]]

\* s.sort(key=lambda x: x[field], reverse=...)
SortedByField(s, field, reverse) ==
    SortedByKey(s, [i \in 1..Len(s) |-> s[i][field]], reverse)

RECURSIVE SumField(_, _, _)
\* sum(x.get(field, 0) for x in s)
SumField(s, field, i) ==
    IF i > Len(s) THEN Zero ELSE RAdd(Get(s[i], field, Zero), SumField(s, field, i + 1))

\* the entry analyze_audience_performance makes of a demographic segment
DemographicEntry(seg) ==
    LET spend == Get(seg, "spend", Zero)
        conversions == Get(seg, "conversions", Zero)
        label == << Get(seg, "gender", EmptyName), Get(seg, "age", EmptyName) >>
    IN  IF RGt(spend, RInt(5)) /\ RIsZero(conversions)
        THEN [list |-> "wasted",
              entry |-> [segment |-> label, type |-> "demographic", spend |-> spend,
                         clicks |-> Get(seg, "clicks", Zero), ctr |-> Get(seg, "ctr", Zero),
                         issue |-> "Zero conversions"]]
        ELSE IF RGt(conversions, Zero)
        THEN [list |-> "top",
              entry |-> [segment |-> label, type |-> "demographic", spend |-> spend,
                         conversions |-> conversions, cpa |-> RDiv(spend, conversions),
                         ctr |-> Get(seg, "ctr", Zero)]]
        ELSE [list |-> "none"]

\* the entry analyze_audience_performance makes of a placement
PlacementSegmentEntry(pl) ==
    LET spend == Get(pl, "spend", Zero)
        conversions == Get(pl, "conversions", Zero)
        label == << Get(pl, "placement_name", EmptyName) >>
    IN  IF RGt(spend, RInt(5)) /\ RIsZero(conversions)
        THEN [list |-> "wasted",
              entry |-> [segment |-> label, type |-> "placement", spend |-> spend,
                         clicks |-> Get(pl, "clicks", Zero), cpm |-> Get(pl, "cpm", Zero),
                         issue |-> "Zero conversions"]]
        ELSE IF RGt(conversions, Zero)
        THEN [list |-> "top",
              entry |-> [segment |-> label, type |-> "placement", spend |-> spend,
                         conversions |-> conversions, cpa |-> RDiv(spend, conversions)]]
        ELSE [list |-> "none"]

\* faulty variant: the winners are left in the order they were met
analyze_audience_performance_unsorted(demographics, placements) ==
    LET made == [i \in 1..Len(demographics) |-> DemographicEntry(demographics[i])]
                \o [i \in 1..Len(placements) |-> PlacementSegmentEntry(placements[i])]
        wasted_segments ==
            SortedByField(EntriesOf(SelectSeq(made, LAMBDA m : m.list = "wasted")),
                          "spend", TRUE)
        top_segments == EntriesOf(SelectSeq(made, LAMBDA m : m.list = "top"))
    IN  [wasted_segments |-> Take(wasted_segments, 10),
         top_segments |-> Take(top_segments, 10),
         total_wasted_spend |-> Round2(SumField(wasted_segments, "spend", 1)),
         wasted_count |-> Len(wasted_segments)]

analyze_audience_performance(demographics, placements) ==
    LET made == [i \in 1..Len(demographics) |-> DemographicEntry(demographics[i])]
                \o [i \in 1..Len(placements) |-> PlacementSegmentEntry(placements[i])]
        wasted_segments ==
            SortedByField(EntriesOf(SelectSeq(made, LAMBDA m : m.list = "wasted")),
                          "spend", TRUE)
        top_segments ==
            SortedByField(EntriesOf(SelectSeq(made, LAMBDA m : m.list = "top")),
                          "cpa", FALSE)
    IN  [wasted_segments |-> Take(wasted_segments, 10),
         top_segments |-> Take(top_segments, 10),
         total_wasted_spend |-> Round2(SumField(wasted_segments, "spend", 1)),
         wasted_count |-> Len(wasted_segments)]

\* faulty variant: a low click-through rate is not a sign of fatigue
FatigueLevel_frequency_only(frequency, ctr, impressions) ==
    IF RGt(frequency, RInt(5)) THEN "critical"
    ELSE IF RGt(frequency, RInt(3)) THEN "warning"
    ELSE "healthy"

\* fatigue_level of an ad with enough impressions
FatigueLevel(frequency, ctr, impressions) ==
    LET by_frequency == IF RGt(frequency, RInt(5)) THEN "critical"
                        ELSE IF RGt(frequency, RInt(3)) THEN "warning"
                        ELSE "healthy"
    IN  IF RLt(ctr, Rat(1, 2)) /\ RGt(impressions, RInt(1000)) /\ by_frequency = "healthy"
        THEN "warning"
        ELSE by_frequency

\* the issues an ad is listed with
FatigueIssues(frequency, ctr, impressions) ==
    (IF RGt(frequency, RInt(5)) THEN << "critical: ads shown too many times" >>
     ELSE IF RGt(frequency, RInt(3)) THEN << "users seeing ad too often" >>
     ELSE <<>>)
    \o (IF RLt(ctr, Rat(1, 2)) /\ RGt(impressions, RInt(1000)) THEN << "Low CTR" >> ELSE <<>>)

\* the entry analyze_creative_fatigue makes of an ad
CreativeFatigueEntry(ad) ==
    LET frequency == Get(ad, "frequency", Zero)
        ctr == Get(ad, "ctr", Zero)
        impressions == Get(ad, "impressions", Zero)
        spend == Get(ad, "spend", Zero)
        fatigue_level == FatigueLevel(frequency, ctr, impressions)
    IN  IF RLt(impressions, RInt(100))
        THEN [list |-> "none"]
        ELSE IF fatigue_level # "healthy"
        THEN [list |-> "fatigued",
              entry |-> [ad_name |-> Get(ad, "ad_name", EmptyName),
                         campaign_name |-> Get(ad, "campaign_name", EmptyName),
                         frequency |-> frequency, ctr |-> ctr, impressions |-> impressions,
                         spend |-> spend, fatigue_level |-> fatigue_level,
                         issues |-> FatigueIssues(frequency, ctr, impressions),
                         headline |-> Get(ad, "headline", EmptyName)]]
        ELSE [list |-> "healthy",
              entry |-> [ad_name |-> Get(ad, "ad_name", EmptyName),
                         frequency |-> frequency, ctr |-> ctr,
                         conversions |-> Get(ad, "conversions", Zero), spend |-> spend]]

\* the campaign-level frequency check of analyze_creative_fatigue
CampaignFatigue(campaigns) ==
    LET high == SelectSeq(campaigns, LAMBDA c : RGt(Get(c, "frequency", Zero), RInt(3)))
    IN  [i \in 1..Len(high) |->
            [campaign_name |-> Get(high[i], "campaign_name", EmptyName),
             frequency |-> Get(high[i], "frequency", Zero),
             reach |-> Get(high[i], "reach", Zero),
             impressions |-> Get(high[i], "impressions", Zero),
             severity |-> IF RGt(Get(high[i], "frequency", Zero), RInt(5))
                          THEN "critical" ELSE "warning"]]

analyze_creative_fatigue(ads, campaigns) ==
    LET made == [i \in 1..Len(ads) |-> CreativeFatigueEntry(ads[i])]
        fatigued_ads ==
            SortedByField(EntriesOf(SelectSeq(made, LAMBDA m : m.list = "fatigued")),
                          "frequency", TRUE)
        healthy_ads == EntriesOf(SelectSeq(made, LAMBDA m : m.list = "healthy"))
    IN  [fatigued_ads |-> Take(fatigued_ads, 10),
         healthy_ads |-> Take(SortedByField(healthy_ads, "conversions", TRUE), 5),
         campaign_fatigue |-> CampaignFatigue(campaigns),
         total_fatigued |-> Len(fatigued_ads)]

\* the platform name a placement without 'platform' is grouped under
UnknownPlatform == 0 - 1

\* the keys of platform_summary, in the order they were first met
PlatformsMet(placements) ==
    LET platform(i) == Get(placements[i], "platform", UnknownPlatform)
        first == SelectSeq([i \in 1..Len(placements) |-> i],
                           LAMBDA i : \A j \in 1..(i - 1) : platform(j) # platform(i))
    IN  [k \in 1..Len(first) |-> platform(first[k])]

\* platform_results before it is sorted
PlatformResults(placements) ==
    LET met == PlatformsMet(placements)
        of(p) == SelectSeq(placements, LAMBDA pl : Get(pl, "platform", UnknownPlatform) = p)
        Result(p) ==
            LET spend == SumField(of(p), "spend", 1)
                conversions == SumField(of(p), "conversions", 1)
                clicks == SumField(of(p), "clicks", 1)
                impressions == SumField(of(p), "impressions", 1)
            IN  [platform |-> p,
                 spend |-> Round2(spend),
                 conversions |-> conversions,
                 cpa |-> IF RGt(conversions, Zero) THEN Round2(RDiv(spend, conversions)) ELSE Zero,
                 ctr |-> IF RGt(impressions, Zero)
                         THEN Round2(RMul(RDiv(clicks, impressions), RInt(100))) ELSE Zero,
                 cpm |-> IF RGt(impressions, Zero)
                         THEN Round2(RMul(RDiv(spend, impressions), RInt(1000))) ELSE Zero,
                 clicks |-> clicks]
    IN  [k \in 1..Len(met) |-> Result(met[k])]

\* min(s, key=cpa) and max(s, key=cpa): the first of the smallest, of the largest
FirstMinCpa(s) ==
    s[CHOOSE i \in 1..Len(s) :
        /\ \A j \in 1..Len(s) : ~RLt(s[j].cpa, s[i].cpa)
        /\ \A j \in 1..(i - 1) : RGt(s[j].cpa, s[i].cpa)]
FirstMaxCpa(s) ==
    s[CHOOSE i \in 1..Len(s) :
        /\ \A j \in 1..Len(s) : ~RGt(s[j].cpa, s[i].cpa)
        /\ \A j \in 1..(i - 1) : RLt(s[j].cpa, s[i].cpa)]

\* one entry of placement_details
PlacementDetail(pl) ==
    LET spend == Get(pl, "spend", Zero)
        conversions == Get(pl, "conversions", Zero)
    IN  [placement_name |-> Get(pl, "placement_name", EmptyName),
         platform |-> Get(pl, "platform", EmptyName),
         position |-> Get(pl, "position", EmptyName),
         spend |-> Round2(spend),
         clicks |-> Get(pl, "clicks", Zero),
         conversions |-> conversions,
         cpa |-> IF RGt(conversions, Zero) THEN Round2(RDiv(spend, conversions)) ELSE Zero,
         ctr |-> Get(pl, "ctr", Zero),
         cpm |-> Get(pl, "cpm", Zero),
         efficiency |-> IF RGt(conversions, Zero) /\ RLt(RDiv(spend, conversions), RInt(50))
                        THEN "good"
                        ELSE IF RGt(spend, RInt(10)) /\ RIsZero(conversions)
                        THEN "poor" ELSE "average"]

analyze_placement_efficiency(placements) ==
    IF placements = <<>>
    THEN [placements |-> <<>>, best_placement |-> None, worst_placement |-> None]
    ELSE
    LET platform_results == SortedByField(PlatformResults(placements), "spend", TRUE)
        with_conversions == SelectSeq(platform_results, LAMBDA p : RGt(p.conversions, Zero))
        best == IF with_conversions # <<>> THEN FirstMinCpa(with_conversions) ELSE None
        worst == IF Len(with_conversions) > 1 THEN FirstMaxCpa(with_conversions) ELSE None
    IN  \* sorted(placements, key=lambda x: x['spend']) reads the key of every record
        IF \E i \in 1..Len(placements) : "spend" \notin DOMAIN placements[i]
        THEN KeyError
        ELSE LET by_spend == SortedByField(placements, "spend", TRUE)
                 placement_details == [i \in 1..Len(by_spend) |-> PlacementDetail(by_spend[i])]
             IN  [by_platform |-> platform_results,
                  placements |-> Take(placement_details, 15),
                  best_platform |-> best,
                  worst_platform |-> worst]

\* one entry of pacing_details, or none when the campaign has no budget
PacingDetail(camp, days_in_range) ==
    LET daily_budget == Get(camp, "daily_budget", Zero)
        lifetime_budget == Get(camp, "lifetime_budget", Zero)
        camp_spend == Get(camp, "spend", Zero)
        camp_daily_avg == IF days_in_range > 0 THEN RDiv(camp_spend, RInt(days_in_range))
                          ELSE Zero
    IN  IF RGt(daily_budget, Zero)
        THEN LET utilization == RMul(RDiv(camp_daily_avg, daily_budget), RInt(100))
             IN  << [campaign_name |-> Get(camp, "campaign_name", EmptyName),
                     budget_type |-> "daily",
                     budget |-> daily_budget,
                     avg_daily_spend |-> Round2(camp_daily_avg),
                     utilization_pct |-> Round1(utilization),
                     status |-> IF RGt(utilization, RInt(110)) THEN "overspending"
                                ELSE IF RLt(utilization, RInt(70)) THEN "underspending"
                                ELSE "on_track"] >>
        ELSE IF RGt(lifetime_budget, Zero)
        THEN LET utilization == RMul(RDiv(camp_spend, lifetime_budget), RInt(100))
             IN  << [campaign_name |-> Get(camp, "campaign_name", EmptyName),
                     budget_type |-> "lifetime",
                     budget |-> lifetime_budget,
                     total_spend |-> Round2(camp_spend),
                     utilization_pct |-> Round1(utilization),
                     status |-> IF RGt(utilization, RInt(90)) THEN "overspending"
                                ELSE IF RLt(utilization, RInt(30)) THEN "underspending"
                                ELSE "on_track"] >>
        ELSE <<>>

RECURSIVE PacingDetails(_, _, _)
PacingDetails(campaigns, days_in_range, i) ==
    IF i > Len(campaigns) THEN <<>>
    ELSE PacingDetail(campaigns[i], days_in_range)
         \o PacingDetails(campaigns, days_in_range, i + 1)

analyze_budget_pacing(campaigns, days_in_range) ==
    IF campaigns = <<>>
    THEN [empty |-> TRUE]
    ELSE IF \E i \in 1..Len(campaigns) : "spend" \notin DOMAIN campaigns[i]
    THEN KeyError   \* sum(c['spend'] for c in campaigns)
    ELSE
    LET total_spend == SumField(campaigns, "spend", 1)
        daily_avg == IF days_in_range > 0 THEN RDiv(total_spend, RInt(days_in_range)) ELSE Zero
        projected_monthly == RMul(daily_avg, RInt(30))
    IN  [total_spend |-> Round2(total_spend),
         daily_average |-> Round2(daily_avg),
         projected_monthly |-> Round2(projected_monthly),
         days_in_range |-> days_in_range,
         campaign_pacing |-> PacingDetails(campaigns, days_in_range, 1)]

\* the entry analyze_geo_performance makes of a location
GeoEntry(geo) ==
    LET spend == Get(geo, "spend", Zero)
        conversions == Get(geo, "conversions", Zero)
        clicks == Get(geo, "clicks", Zero)
    IN  IF RGt(conversions, Zero)
        THEN [list |-> "top",
              entry |-> [location |-> Get(geo, "location_name", EmptyName),
                         spend |-> Round2(spend), conversions |-> conversions,
                         cpa |-> Round2(RDiv(spend, conversions)), clicks |-> clicks]]
        ELSE IF RGt(spend, RInt(5)) /\ RGt(clicks, RInt(5))
        THEN [list |-> "poor",
              entry |-> [location |-> Get(geo, "location_name", EmptyName),
                         spend |-> Round2(spend), clicks |-> clicks,
                         issue |-> "Zero conversions"]]
        ELSE [list |-> "none"]

analyze_geo_performance(geo_data) ==
    IF geo_data = <<>>
    THEN [locations |-> <<>>, top_locations |-> <<>>, poor_locations |-> <<>>]
    ELSE
    LET sorted_geo ==
            SortedByKey(geo_data,
                        [i \in 1..Len(geo_data) |-> Get(geo_data[i], "clicks", Zero)], TRUE)
        made == [i \in 1..Len(sorted_geo) |-> GeoEntry(sorted_geo[i])]
        top_locations ==
            SortedByField(EntriesOf(SelectSeq(made, LAMBDA m : m.list = "top")), "cpa", FALSE)
        poor_locations ==
            SortedByField(EntriesOf(SelectSeq(made, LAMBDA m : m.list = "poor")), "spend", TRUE)
    IN  [locations |-> Take(sorted_geo, 15),
         top_locations |-> Take(top_locations, 5),
         poor_locations |-> Take(poor_locations, 5),
         total_locations |-> Len(sorted_geo),
         total_wasted_on_poor_locations |-> Round2(SumField(poor_locations, "spend", 1))]

\* the minimum-data cutoffs of analyze_top_performers
campaign_min_clicks == 10
adset_min_clicks == 5
min_spend == 10

\* the entry analyze_top_performers makes of a campaign
TopCampaignEntry(camp, avg_cpa) ==
    LET spend == Get(camp, "spend", Zero)
        conversions == Get(camp, "conversions", Zero)
        clicks == Get(camp, "clicks", Zero)
        cpa == IF RGt(conversions, Zero) THEN RDiv(spend, conversions) ELSE Zero
        conv_rate == IF RGt(clicks, Zero) THEN RMul(RDiv(conversions, clicks), RInt(100))
                     ELSE Zero
    IN  IF RLt(spend, RInt(min_spend)) \/ RLt(clicks, RInt(campaign_min_clicks))
        THEN [list |-> "none"]
        ELSE IF /\ RGt(conversions, Zero)
                /\ RLt(cpa, RMul(avg_cpa, Rat(8, 10)))
                /\ RGt(conv_rate, RInt(3))
        THEN [list |-> "scale",
              entry |-> [name |-> Get(camp, "campaign_name", EmptyName),
                         level |-> "campaign",
                         spend |-> Round2(spend), conversions |-> conversions,
                         cpa |-> Round2(cpa), conv_rate |-> Round2(conv_rate),
                         vs_avg_cpa |-> IF RGt(avg_cpa, Zero)
                                        THEN Round1(RMul(RSub(RInt(1), RDiv(cpa, avg_cpa)),
                                                         RInt(100)))
                                        ELSE Zero]]
        ELSE IF RGt(spend, RInt(50)) /\ RIsZero(conversions)
        THEN [list |-> "review",
              entry |-> [name |-> Get(camp, "campaign_name", EmptyName),
                         level |-> "campaign",
                         spend |-> Round2(spend), clicks |-> clicks,
                         issue |-> "High spend with zero conversions"]]
        ELSE [list |-> "none"]

\* the entry analyze_top_performers makes of an ad set
TopAdSetEntry(adset, avg_cpa) ==
    LET spend == Get(adset, "spend", Zero)
        conversions == Get(adset, "conversions", Zero)
        clicks == Get(adset, "clicks", Zero)
        cpa == IF RGt(conversions, Zero) THEN RDiv(spend, conversions) ELSE Zero
        conv_rate == IF RGt(clicks, Zero) THEN RMul(RDiv(conversions, clicks), RInt(100))
                     ELSE Zero
    IN  IF RLt(spend, RInt(min_spend)) \/ RLt(clicks, RInt(adset_min_clicks))
        THEN [list |-> "none"]
        ELSE IF /\ RGt(conversions, Zero)
                /\ RLt(cpa, RMul(avg_cpa, Rat(7, 10)))
                /\ RGt(conv_rate, RInt(3))
        THEN [list |-> "scale",
              entry |-> [name |-> Get(adset, "adset_name", EmptyName),
                         level |-> "ad_set",
                         campaign |-> Get(adset, "campaign_name", EmptyName),
                         spend |-> Round2(spend), conversions |-> conversions,
                         cpa |-> Round2(cpa), conv_rate |-> Round2(conv_rate),
                         vs_avg_cpa |-> IF RGt(avg_cpa, Zero)
                                        THEN Round1(RMul(RSub(RInt(1), RDiv(cpa, avg_cpa)),
                                                         RInt(100)))
                                        ELSE Zero]]
        ELSE [list |-> "none"]

analyze_top_performers(campaigns, ad_sets) ==
    LET total_spend == SumField(campaigns, "spend", 1)
        total_conv == SumField(campaigns, "conversions", 1)
        total_clicks == SumField(campaigns, "clicks", 1)
        avg_cpa == IF RGt(total_conv, Zero) THEN RDiv(total_spend, total_conv) ELSE Zero
        avg_conv_rate == IF RGt(total_clicks, Zero)
                         THEN RMul(RDiv(total_conv, total_clicks), RInt(100)) ELSE Zero
        made == [i \in 1..Len(campaigns) |-> TopCampaignEntry(campaigns[i], avg_cpa)]
                \o [i \in 1..Len(ad_sets) |-> TopAdSetEntry(ad_sets[i], avg_cpa)]
        scale_candidates ==
            SortedByField(EntriesOf(SelectSeq(made, LAMBDA m : m.list = "scale")), "cpa", FALSE)
        review_candidates ==
            SortedByField(EntriesOf(SelectSeq(made, LAMBDA m : m.list = "review")), "spend", TRUE)
    IN  [scale_candidates |-> Take(scale_candidates, 5),
         review_candidates |-> Take(review_candidates, 3),
         account_avg_cpa |-> Round2(avg_cpa),
         account_avg_conv_rate |-> Round2(avg_conv_rate)]

\* the campaigns analyze_audience_fatigue lists, before they are sorted
FatiguedCampaigns(campaigns) ==
    LET listed == SelectSeq(campaigns,
                            LAMBDA c : /\ RGt(Get(c, "frequency", Zero), RInt(4))
                                       /\ RGt(Get(c, "reach", Zero), RInt(100)))
    IN  [i \in 1..Len(listed) |->
            LET freq == Get(listed[i], "frequency", Zero)
            IN  [campaign_name |-> Get(listed[i], "campaign_name", EmptyName),
                 frequency |-> Round1(freq),
                 reach |-> Get(listed[i], "reach", Zero),
                 impressions |-> Get(listed[i], "impressions", Zero),
                 spend |-> Round2(Get(listed[i], "spend", Zero)),
                 severity |-> IF RGt(freq, RInt(6)) THEN "critical" ELSE "warning",
                 suggestion |-> IF RGt(freq, RInt(6)) THEN "lookalike" ELSE "expand"]]

\* the ads analyze_audience_fatigue lists
FatiguedAdsList(ads) ==
    LET listed == SelectSeq(ads,
                            LAMBDA a : /\ RGt(Get(a, "frequency", Zero), RInt(5))
                                       /\ RGt(Get(a, "impressions", Zero), RInt(500)))
    IN  [i \in 1..Len(listed) |->
            [ad_name |-> Get(listed[i], "ad_name", EmptyName),
             campaign_name |-> Get(listed[i], "campaign_name", EmptyName),
             frequency |-> Round1(Get(listed[i], "frequency", Zero)),
             ctr |-> Get(listed[i], "ctr", Zero),
             spend |-> Round2(Get(listed[i], "spend", Zero))]]

analyze_audience_fatigue(campaigns, ads) ==
    LET fatigued_campaigns == SortedByField(FatiguedCampaigns(campaigns), "frequency", TRUE)
    IN  [fatigued_campaigns |-> Take(fatigued_campaigns, 5),
         fatigued_ads |-> Take(FatiguedAdsList(ads), 5),
         total_fatigued_campaigns |-> Len(fatigued_campaigns)]

\* the entry analyze_day_of_week_performance makes of a day
DayEntry(day) ==
    LET spend == Get(day, "spend", Zero)
        conversions == Get(day, "conversions", Zero)
        clicks == Get(day, "clicks", Zero)
    IN  IF RGt(spend, RInt(10)) /\ RIsZero(conversions)
        THEN [list |-> "wasted", reads_day |-> TRUE,
              entry |-> [day |-> Get(day, "day", EmptyName), spend |-> spend,
                         clicks |-> clicks, issue |-> "Zero conversions"]]
        ELSE IF RGt(conversions, Zero)
        THEN [list |-> "best", reads_day |-> TRUE,
              entry |-> [day |-> Get(day, "day", EmptyName), spend |-> spend,
                         conversions |-> conversions,
                         cpa |-> Round2(RDiv(spend, conversions)), clicks |-> clicks]]
        ELSE [list |-> "none", reads_day |-> FALSE]

analyze_day_of_week_performance(time_data) ==
    LET daily_perf == Get(time_data, "daily_performance", <<>>)
        made == [i \in 1..Len(daily_perf) |-> DayEntry(daily_perf[i])]
        wasted_days ==
            SortedByField(EntriesOf(SelectSeq(made, LAMBDA m : m.list = "wasted")),
                          "spend", TRUE)
        best_days ==
            SortedByField(EntriesOf(SelectSeq(made, LAMBDA m : m.list = "best")), "cpa", FALSE)
    IN  IF daily_perf = <<>>
        THEN [wasted_days |-> <<>>, best_days |-> <<>>, recommendations |-> <<>>]
        ELSE IF \E i \in 1..Len(daily_perf) :
                    made[i].reads_day /\ "day" \notin DOMAIN daily_perf[i]
        THEN KeyError   \* day['day']
        ELSE [wasted_days |-> wasted_days,
              best_days |-> Take(best_days, 3),
              total_wasted_on_days |-> Round2(SumField(wasted_days, "spend", 1))]

\* the entry analyze_roas_opportunities makes of a campaign
RoasCampaignEntry(camp) ==
    LET roas == Get(camp, "roas", Zero)
        conversion_value == Get(camp, "conversion_value", Zero)
        spend == Get(camp, "spend", Zero)
    IN  IF RLt(spend, RInt(10))
        THEN [list |-> "none"]
        ELSE IF RGt(roas, RInt(2)) /\ RGt(conversion_value, Zero)
        THEN [list |-> "scale",
              entry |-> [name |-> Get(camp, "campaign_name", EmptyName),
                         level |-> "campaign",
                         roas |-> Round2(roas),
                         conversion_value |-> Round2(conversion_value),
                         spend |-> Round2(spend),
                         net_return |-> Round2(RSub(conversion_value, spend))]]
        ELSE IF RGt(roas, Zero) /\ RLt(roas, RInt(1)) /\ RGt(conversion_value, Zero)
        THEN [list |-> "review",
              entry |-> [name |-> Get(camp, "campaign_name", EmptyName),
                         level |-> "campaign",
                         roas |-> Round2(roas),
                         conversion_value |-> Round2(conversion_value),
                         spend |-> Round2(spend),
                         loss |-> Round2(RSub(spend, conversion_value))]]
        ELSE [list |-> "none"]

\* the entry analyze_roas_opportunities makes of an ad set
RoasAdSetEntry(adset) ==
    LET roas == IF "roas" \in DOMAIN adset THEN adset.roas
                ELSE IF RGt(Get(adset, "spend", Zero), Zero)
                THEN RDiv(Get(adset, "conversion_value", Zero), Get(adset, "spend", RInt(1)))
                ELSE Zero
        conversion_value == Get(adset, "conversion_value", Zero)
        spend == Get(adset, "spend", Zero)
    IN  IF RLt(spend, RInt(10)) \/ RIsZero(conversion_value)
        THEN [list |-> "none"]
        ELSE IF RGt(roas, RInt(3))
        THEN [list |-> "scale",
              entry |-> [name |-> Get(adset, "adset_name", EmptyName),
                         level |-> "ad_set",
                         campaign |-> Get(adset, "campaign_name", EmptyName),
                         roas |-> Round2(roas),
                         conversion_value |-> Round2(conversion_value),
                         spend |-> Round2(spend)]]
        ELSE [list |-> "none"]

analyze_roas_opportunities(campaigns, ad_sets) ==
    LET made == [i \in 1..Len(campaigns) |-> RoasCampaignEntry(campaigns[i])]
                \o [i \in 1..Len(ad_sets) |-> RoasAdSetEntry(ad_sets[i])]
        scale_roas ==
            SortedByField(EntriesOf(SelectSeq(made, LAMBDA m : m.list = "scale")), "roas", TRUE)
        review_roas ==
            SortedByField(EntriesOf(SelectSeq(made, LAMBDA m : m.list = "review")), "loss", TRUE)
    IN  [scale_opportunities |-> Take(scale_roas, 5),
         review_opportunities |-> Take(review_roas, 3)]

\* the entry analyze_geo_bid_opportunities makes of a location
GeoBidEntry(geo, avg_cpa) ==
    LET spend == Get(geo, "spend", Zero)
        conversions == Get(geo, "conversions", Zero)
        clicks == Get(geo, "clicks", Zero)
        location == Get(geo, "location_name", EmptyName)
        cpa == RDiv(spend, conversions)
    IN  IF RLt(spend, RInt(5))
        THEN [list |-> "none"]
        ELSE IF RGt(conversions, Zero)
        THEN IF RLt(cpa, RMul(avg_cpa, Rat(8, 10)))
             THEN [list |-> "scale",
                   entry |-> [location |-> location,
                              spend |-> Round2(spend), conversions |-> conversions,
                              cpa |-> Round2(cpa),
                              vs_avg |-> IF RGt(avg_cpa, Zero)
                                         THEN Round1(RMul(RSub(RInt(1), RDiv(cpa, avg_cpa)),
                                                          RInt(100)))
                                         ELSE Zero,
                              clicks |-> clicks]]
             ELSE [list |-> "none"]
        ELSE IF RGt(spend, RInt(10)) /\ RGt(clicks, RInt(5))
        THEN [list |-> "cut",
              entry |-> [location |-> location, spend |-> Round2(spend),
                         clicks |-> clicks, issue |-> "Zero conversions"]]
        ELSE [list |-> "none"]

analyze_geo_bid_opportunities(geo_data) ==
    IF geo_data = <<>>
    THEN [scale_locations |-> <<>>, cut_locations |-> <<>>]
    ELSE
    LET total_spend == SumField(geo_data, "spend", 1)
        total_conv == SumField(geo_data, "conversions", 1)
        avg_cpa == IF RGt(total_conv, Zero) THEN RDiv(total_spend, total_conv) ELSE Zero
        made == [i \in 1..Len(geo_data) |-> GeoBidEntry(geo_data[i], avg_cpa)]
        scale_locations ==
            SortedByField(EntriesOf(SelectSeq(made, LAMBDA m : m.list = "scale")), "cpa", FALSE)
        cut_locations ==
            SortedByField(EntriesOf(SelectSeq(made, LAMBDA m : m.list = "cut")), "spend", TRUE)
    IN  [scale_locations |-> Take(scale_locations, 5),
         cut_locations |-> Take(cut_locations, 5),
         avg_cpa |-> Round2(avg_cpa)]

(* Inputs of the analyzers: short lists of records, some with metric keys  *)
(* missing.                                                                *)

\* the longest record list an analyzer is called with (both lists together)
MaxAnalyzed == 3

DemographicRecords ==
    { [gender |-> 1, age |-> 1, spend |-> RInt(20)],
      [gender |-> 1, age |-> 2, spend |-> RInt(60), conversions |-> Zero, clicks |-> RInt(20)],
      [gender |-> 2, age |-> 1, spend |-> RInt(20), conversions |-> RInt(2)],
      [gender |-> 2, age |-> 2, spend |-> RInt(20), conversions |-> RInt(4)],
      [gender |-> 1, age |-> 1, conversions |-> RInt(2)] }

PlacementSegmentRecords ==
    { [placement_name |-> 1, spend |-> RInt(60)],
      [placement_name |-> 2, spend |-> RInt(60), conversions |-> RInt(4)] }

PlacementRecords ==
    { [placement_name |-> 1, platform |-> 1, spend |-> RInt(60), conversions |-> RInt(4),
       clicks |-> RInt(20), impressions |-> RInt(2000)],
      [placement_name |-> 2, platform |-> 1, spend |-> RInt(20), clicks |-> RInt(20),
       impressions |-> RInt(1000)],
      [placement_name |-> 3, platform |-> 2, spend |-> RInt(20), conversions |-> RInt(2)],
      [placement_name |-> 4, platform |-> 2, conversions |-> RInt(2)],
      [placement_name |-> 5] }

PacedCampaignRecords ==
    { [campaign_name |-> 1, spend |-> RInt(70), daily_budget |-> RInt(10)],
      [campaign_name |-> 2, spend |-> RInt(140), daily_budget |-> RInt(10)],
      [campaign_name |-> 3, spend |-> RInt(20), lifetime_budget |-> RInt(100)],
      [campaign_name |-> 4, daily_budget |-> RInt(10)],
      [campaign_name |-> 5, spend |-> RInt(20)] }

DaysInRange == {0, 7}

GeoRecords ==
    { [location_name |-> 1, spend |-> RInt(20), conversions |-> RInt(4), clicks |-> RInt(20)],
      [location_name |-> 2, spend |-> RInt(20), conversions |-> RInt(2), clicks |-> RInt(20)],
      [location_name |-> 3, spend |-> RInt(60), conversions |-> RInt(2), clicks |-> RInt(7)],
      [location_name |-> 4, spend |-> RInt(60), clicks |-> RInt(20)],
      [location_name |-> 6, spend |-> RInt(8), clicks |-> RInt(7)],
      [location_name |-> 5, spend |-> RInt(20), clicks |-> RInt(7)],
      [location_name |-> 7, clicks |-> RInt(20)],
      [location_name |-> 8, spend |-> RInt(4), conversions |-> RInt(2)] }

PerformerCampaignRecords ==
    { [campaign_name |-> 1, spend |-> RInt(20), conversions |-> RInt(4), clicks |-> RInt(20)],
      [campaign_name |-> 2, spend |-> RInt(20), conversions |-> RInt(2), clicks |-> RInt(20)],
      [campaign_name |-> 3, spend |-> RInt(60), clicks |-> RInt(20)],
      [campaign_name |-> 4, spend |-> RInt(100), clicks |-> RInt(20)],
      [campaign_name |-> 5, spend |-> RInt(60), clicks |-> RInt(7)],
      [campaign_name |-> 6, spend |-> RInt(8), conversions |-> RInt(4), clicks |-> RInt(20)] }

PerformerAdSetRecords ==
    { [adset_name |-> 1, campaign_name |-> 1, spend |-> RInt(20), conversions |-> RInt(4),
       clicks |-> RInt(7)],
      [adset_name |-> 2, spend |-> RInt(20), conversions |-> RInt(4), clicks |-> RInt(4)],
      [adset_name |-> 3, spend |-> RInt(12), conversions |-> RInt(4), clicks |-> RInt(20)] }

RoasCampaignRecords ==
    { [campaign_name |-> 1, spend |-> RInt(100), roas |-> RInt(3),
       conversion_value |-> RInt(300)],
      [campaign_name |-> 2, spend |-> RInt(100), clicks |-> RInt(20), roas |-> Rat(1, 2),
       conversion_value |-> RInt(50)],
      [campaign_name |-> 3, spend |-> RInt(20), clicks |-> RInt(20), roas |-> Rat(1, 2),
       conversion_value |-> RInt(10)],
      [campaign_name |-> 4, spend |-> RInt(8), clicks |-> RInt(20), roas |-> RInt(3),
       conversion_value |-> RInt(24)],
      [campaign_name |-> 5, spend |-> RInt(20), clicks |-> RInt(20), roas |-> RInt(4),
       conversion_value |-> RInt(80)] }

RoasAdSetRecords ==
    { [adset_name |-> 1, spend |-> RInt(20), clicks |-> RInt(20),
       conversion_value |-> RInt(80)],
      [adset_name |-> 2, spend |-> RInt(20), clicks |-> RInt(2), roas |-> RInt(5),
       conversion_value |-> RInt(100)],
      [adset_name |-> 3, spend |-> RInt(20), clicks |-> RInt(20), roas |-> RInt(5)] }

AdRecords ==
    { [ad_name |-> 1, frequency |-> RInt(6), ctr |-> RInt(1), impressions |-> RInt(2000)],
      [ad_name |-> 2, frequency |-> RInt(5), ctr |-> RInt(1), impressions |-> RInt(2000)],
      [ad_name |-> 3, frequency |-> RInt(2), ctr |-> Rat(1, 4), impressions |-> RInt(2000)],
      [ad_name |-> 4, frequency |-> RInt(3), ctr |-> RInt(1), impressions |-> RInt(2000),
       conversions |-> RInt(2)],
      [ad_name |-> 5, frequency |-> RInt(6), ctr |-> RInt(1), impressions |-> RInt(50)],
      [ad_name |-> 6, frequency |-> RInt(4), ctr |-> Rat(1, 4), impressions |-> RInt(2000)],
      [ad_name |-> 7, frequency |-> RInt(3), impressions |-> RInt(200)] }

FrequencyCampaignRecords ==
    { [campaign_name |-> 1, frequency |-> RInt(7), reach |-> RInt(1000), spend |-> RInt(20),
       impressions |-> RInt(7000)],
      [campaign_name |-> 3, frequency |-> RInt(7), reach |-> RInt(10),
       impressions |-> RInt(70)],
      [campaign_name |-> 4, frequency |-> RInt(6), reach |-> RInt(1000)],
      [campaign_name |-> 5, frequency |-> RInt(4), reach |-> RInt(1000)],
      [campaign_name |-> 2, frequency |-> RInt(5), reach |-> RInt(1000)],
      [campaign_name |-> 6, frequency |-> Rat(121, 20), reach |-> RInt(1000)] }

DayRecords ==
    { [day |-> 1, spend |-> RInt(20), clicks |-> RInt(5)],
      [day |-> 2, spend |-> RInt(60)],
      [day |-> 3, spend |-> RInt(20), conversions |-> RInt(2)],
      [day |-> 4, spend |-> RInt(20), conversions |-> RInt(4)],
      [day |-> 5, conversions |-> RInt(2)],
      [spend |-> RInt(20)] }

\* the lists of at most MaxAnalyzed records of a set
ListsOf(records) == UNION { [1..n -> records] : n \in 0..MaxAnalyzed }

\* two lists of records of two sets, at most MaxAnalyzed records together
ListPairsOf(first, second) ==
    UNION { UNION { [1..n -> first] \X [1..m -> second] : m \in 0..(MaxAnalyzed - n) } :
                n \in 0..MaxAnalyzed }

InitAnalyze ==
    /\ IdleImpact
    /\ IdleAgg
    /\ IdleGen
    /\ IdleReport
    /\ IdleFacebook
    /\ IdleGoogle
    /\ IdleJob
    /\ IdleAnalyze

Analyzed(call, result) ==
    /\ anCall' = call
    /\ anResult' = result
    /\ UNCHANGED << impactVars, aggVars, genVars, reportVars, fbVars, gaVars, jobVars>>

CallAudiencePerformance ==
    /\ anCall.fn = "none"
    /\ \E pair \in ListPairsOf(DemographicRecords, PlacementSegmentRecords) :
        Analyzed([fn |-> "analyze_audience_performance",
                  demographics |-> pair[1], placements |-> pair[2]],
                 analyze_audience_performance(pair[1], pair[2]))

CallCreativeFatigue ==
    /\ anCall.fn = "none"
    /\ \E pair \in ListPairsOf(AdRecords, FrequencyCampaignRecords) :
        Analyzed([fn |-> "analyze_creative_fatigue", ads |-> pair[1], campaigns |-> pair[2]],
                 analyze_creative_fatigue(pair[1], pair[2]))

CallPlacementEfficiency ==
    /\ anCall.fn = "none"
    /\ \E placements \in ListsOf(PlacementRecords) :
        Analyzed([fn |-> "analyze_placement_efficiency", placements |-> placements],
                 analyze_placement_efficiency(placements))

CallBudgetPacing ==
    /\ anCall.fn = "none"
    /\ \E campaigns \in ListsOf(PacedCampaignRecords), days_in_range \in DaysInRange :
        Analyzed([fn |-> "analyze_budget_pacing", campaigns |-> campaigns,
                  days_in_range |-> days_in_range],
                 analyze_budget_pacing(campaigns, days_in_range))

CallGeoPerformance ==
    /\ anCall.fn = "none"
    /\ \E geo_data \in ListsOf(GeoRecords) :
        Analyzed([fn |-> "analyze_geo_performance", geo_data |-> geo_data],
                 analyze_geo_performance(geo_data))

CallTopPerformers ==
    /\ anCall.fn = "none"
    /\ \E pair \in ListPairsOf(PerformerCampaignRecords, PerformerAdSetRecords) :
        Analyzed([fn |-> "analyze_top_performers", campaigns |-> pair[1], ad_sets |-> pair[2]],
                 analyze_top_performers(pair[1], pair[2]))

CallAudienceFatigue ==
    /\ anCall.fn = "none"
    /\ \E pair \in ListPairsOf(FrequencyCampaignRecords, AdRecords) :
        Analyzed([fn |-> "analyze_audience_fatigue", campaigns |-> pair[1], ads |-> pair[2]],
                 analyze_audience_fatigue(pair[1], pair[2]))

CallDayOfWeekPerformance ==
    /\ anCall.fn = "none"
    /\ \E daily_perf \in ListsOf(DayRecords), keyed \in BOOLEAN :
        LET time_data == IF keyed THEN [daily_performance |-> daily_perf]
                         ELSE [hourly_performance |-> <<>>]
        IN  /\ keyed \/ daily_perf = <<>>
            /\ Analyzed([fn |-> "analyze_day_of_week_performance", time_data |-> time_data],
                        analyze_day_of_week_performance(time_data))

CallRoasOpportunities ==
    /\ anCall.fn = "none"
    /\ \E pair \in ListPairsOf(RoasCampaignRecords, RoasAdSetRecords) :
        Analyzed([fn |-> "analyze_roas_opportunities", campaigns |-> pair[1],
                  ad_sets |-> pair[2]],
                 analyze_roas_opportunities(pair[1], pair[2]))

CallGeoBidOpportunities ==
    /\ anCall.fn = "none"
    /\ \E geo_data \in ListsOf(GeoRecords) :
        Analyzed([fn |-> "analyze_geo_bid_opportunities", geo_data |-> geo_data],
                 analyze_geo_bid_opportunities(geo_data))

NextAnalyze ==
    \/ CallAudiencePerformance
    \/ CallCreativeFatigue
    \/ CallPlacementEfficiency
    \/ CallBudgetPacing
    \/ CallGeoPerformance
    \/ CallTopPerformers
    \/ CallAudienceFatigue
    \/ CallDayOfWeekPerformance
    \/ CallRoasOpportunities
    \/ CallGeoBidOpportunities

SpecAnalyze == InitAnalyze /\ [][NextAnalyze]_vars


-----------------------------------------------------------------------------
(* modal_cloud.py: weekly_report_job spawns one generate_client_report per *)
(* client; a worker runs one invocation at a time and keeps its /tmp from  *)
(* one invocation to the next.                                             *)

\* how many times the weekly schedule fires
MaxWeeklyJobs == 2
\* the last second of the clock
MaxClock == 2

\* the orders in which clients.items() can yield the clients
SpawnOrders ==
    { order \in [1..Cardinality(ReportClients) -> ReportClients] :
        \A i, j \in DOMAIN order : i # j => order[i] # order[j] }

\* facebook_ads_dashboard_{ad_account_id}_{timestamp}.html
DashboardFile(ad_account_id, timestamp) ==
    [account |-> ad_account_id, timestamp |-> timestamp]

\* the order of two file names as strings: the account ids are digit strings
\* of one length and the timestamps are %Y%m%d_%H%M%S
NameBefore(f, g) ==
    \/ f.account < g.account
    \/ f.account = g.account /\ f.timestamp < g.timestamp

\* sorted(fb_dashboard_files)[-1]
LastSorted(files) ==
    CHOOSE f \in files : \A g \in files \ {f} : NameBefore(g, f)

InitReport ==
    /\ IdleImpact
    /\ IdleAgg
    /\ IdleGen
    /\ IdleAnalyze
    /\ IdleReport
    /\ IdleFacebook
    /\ IdleGoogle
    /\ IdleJob

ReportFrame == UNCHANGED << impactVars, aggVars, genVars, anVars, fbVars, gaVars, jobVars>>

\* weekly_report_job: spawn a report for every client, then wait for all of them
RunWeeklyJob ==
    /\ weeklyJobs < MaxWeeklyJobs
    /\ spawned = <<>>
    /\ \A w \in Workers : reportPc[w] = "idle"
    /\ weeklyJobs' = weeklyJobs + 1
    /\ \E order \in SpawnOrders : spawned' = order
    /\ UNCHANGED << tmpFiles, reportClock, reportPc, reportRun, attached >>
    /\ ReportFrame

\* a worker takes the next spawned invocation
StartReport(w) ==
    /\ reportPc[w] = "idle"
    /\ spawned # <<>>
    /\ reportRun' = [reportRun EXCEPT ![w] = [client |-> Head(spawned), own |-> NoFile]]
    /\ reportPc' = [reportPc EXCEPT ![w] = "generating"]
    /\ spawned' = Tail(spawned)
    /\ UNCHANGED << weeklyJobs, tmpFiles, reportClock, attached >>
    /\ ReportFrame

\* create_facebook_html_dashboard.main() writes the dashboard into /tmp
WriteDashboard(w) ==
    /\ reportPc[w] = "generating"
    /\ LET file == DashboardFile(reportRun[w].client, reportClock)
       IN  /\ tmpFiles' = [tmpFiles EXCEPT ![w] = @ \cup {file}]
           /\ reportRun' = [reportRun EXCEPT ![w].own = file]
    /\ reportPc' = [reportPc EXCEPT ![w] = "written"]
    /\ UNCHANGED << spawned, weeklyJobs, reportClock, attached >>
    /\ ReportFrame

\* the dashboard is looked up in /tmp, read and sent with the client's email
AttachDashboard(w) ==
    /\ reportPc[w] = "written"
    /\ attached' = attached \cup { [client |-> reportRun[w].client,
                                    file |-> LastSorted(tmpFiles[w]),
                                    own |-> reportRun[w].own] }
    /\ reportPc' = [reportPc EXCEPT ![w] = "idle"]
    /\ reportRun' = [reportRun EXCEPT ![w] = NoRun]
    /\ UNCHANGED << spawned, weeklyJobs, tmpFiles, reportClock >>
    /\ ReportFrame

\* fetching the metrics or building the insights raised: no dashboard, no email
FailReport(w) ==
    /\ reportPc[w] = "generating"
    /\ reportPc' = [reportPc EXCEPT ![w] = "idle"]
    /\ reportRun' = [reportRun EXCEPT ![w] = NoRun]
    /\ UNCHANGED << spawned, weeklyJobs, tmpFiles, reportClock, attached >>
    /\ ReportFrame

\* an idle container is shut down and a fresh one takes its place
RecycleWorker(w) ==
    /\ reportPc[w] = "idle"
    /\ tmpFiles[w] # {}
    /\ tmpFiles' = [tmpFiles EXCEPT ![w] = {}]
    /\ UNCHANGED << spawned, weeklyJobs, reportClock, reportPc, reportRun, attached >>
    /\ ReportFrame

\* a second passes
TickClock ==
    /\ reportClock < MaxClock
    /\ reportClock' = reportClock + 1
    /\ UNCHANGED << spawned, weeklyJobs, tmpFiles, reportPc, reportRun, attached >>
    /\ ReportFrame

NextReport ==
    \/ RunWeeklyJob
    \/ \E w \in Workers : StartReport(w)
    \/ \E w \in Workers : WriteDashboard(w)
    \/ \E w \in Workers : AttachDashboard(w)
    \/ \E w \in Workers : FailReport(w)
    \/ \E w \in Workers : RecycleWorker(w)
    \/ TickClock

SpecReport == InitReport /\ [][NextReport]_vars

\* C17: the Facebook dashboard attached to a client's email is the one
\* generated in that invocation from that client's own ad account, never a
\* file produced for another client or by an earlier run.
AttachedDashboardIsOwn ==
    \A mail \in attached : mail.file = mail.own /\ mail.file.account = mail.client

(* Claims about the analyzers.                                             *)

AnCalled(fn) == anCall.fn = fn
AnReturned(fn) == anCall.fn = fn /\ "raised" \notin DOMAIN anResult

\* the entries of a list
EntriesIn(list) == { list[i] : i \in DOMAIN list }

\* every record of the call carries the keys that are not metrics
IdentityKeysPresent ==
    AnCalled("analyze_day_of_week_performance")
        => \A day \in EntriesIn(Get(anCall.time_data, "daily_performance", <<>>)) :
               "day" \in DOMAIN day

\* C13: every analyzer returns a result, without raising, for any list of
\* records whose metric fields may be missing; analyze_placement_efficiency
\* and analyze_budget_pacing do not fail on a record without 'spend'.
MissingMetricsNeverRaise ==
    (anCall.fn # "none" /\ IdentityKeysPresent) => "raised" \notin DOMAIN anResult

WasteLists ==
    {"wasted_segments", "poor_locations", "review_candidates", "wasted_days", "cut_locations"}
WinnerLists ==
    {"top_segments", "top_locations", "scale_candidates", "best_days", "scale_locations"}

DescendingBy(list, field) ==
    \A i \in 1..(Len(list) - 1) : ~RLt(list[i][field], list[i + 1][field])
AscendingBy(list, field) ==
    \A i \in 1..(Len(list) - 1) : ~RGt(list[i][field], list[i + 1][field])

\* C18: every returned waste list is in descending order of spend, every
\* returned winner list is in ascending order of cost per acquisition, and no
\* entry of a winner list has zero conversions.
WasteBySpendWinnersByCpa ==
    (anCall.fn # "none" /\ "raised" \notin DOMAIN anResult) =>
        /\ \A k \in WasteLists \cap DOMAIN anResult : DescendingBy(anResult[k], "spend")
        /\ \A k \in WinnerLists \cap DOMAIN anResult :
              /\ AscendingBy(anResult[k], "cpa")
              /\ \A e \in EntriesIn(anResult[k]) : RGt(e.conversions, Zero)

\* an ad set was sorted ahead of a campaign that was met before it, and a
\* campaign is listed for review
SortedListsReached ==
    /\ AnReturned("analyze_top_performers")
    /\ Len(anResult.scale_candidates) >= 2
    /\ anResult.scale_candidates[1].level = "ad_set"
    /\ anResult.scale_candidates[2].level = "campaign"
    /\ RLt(anResult.scale_candidates[1].cpa, anResult.scale_candidates[2].cpa)
    /\ anResult.review_candidates # <<>>

\* the fatigue level analyze_creative_fatigue gave an ad
LevelGiven(ad) ==
    IF \E e \in EntriesIn(anResult.fatigued_ads) : e.ad_name = ad.ad_name
    THEN (CHOOSE e \in EntriesIn(anResult.fatigued_ads) : e.ad_name = ad.ad_name).fatigue_level
    ELSE "healthy"

\* the severity analyze_audience_fatigue gave a campaign
SeverityGiven(camp) ==
    IF \E e \in EntriesIn(anResult.fatigued_campaigns) : e.campaign_name = camp.campaign_name
    THEN (CHOOSE e \in EntriesIn(anResult.fatigued_campaigns) :
              e.campaign_name = camp.campaign_name).severity
    ELSE "none"

\* the ads of the call with enough impressions
MeasuredAds ==
    { ad \in EntriesIn(anCall.ads) : ~RLt(Get(ad, "impressions", Zero), RInt(100)) }

LevelByFrequency(frequency) ==
    IF RGt(frequency, RInt(5)) THEN "critical"
    ELSE IF RGt(frequency, RInt(3)) THEN "warning"
    ELSE "healthy"

SeverityByFrequency(frequency) ==
    IF RGt(frequency, RInt(6)) THEN "critical"
    ELSE IF RGt(frequency, RInt(4)) THEN "warning"
    ELSE "none"

\* C19 as stated: severity is a function of frequency alone.
SeverityIsFunctionOfFrequencyAlone ==
    /\ AnReturned("analyze_creative_fatigue") =>
          \A ad \in MeasuredAds : LevelGiven(ad) = LevelByFrequency(Get(ad, "frequency", Zero))
    /\ AnReturned("analyze_audience_fatigue") =>
          \A camp \in EntriesIn(anCall.campaigns) :
              SeverityGiven(camp) = SeverityByFrequency(Get(camp, "frequency", Zero))

LowCtr(ad) ==
    /\ RLt(Get(ad, "ctr", Zero), Rat(1, 2))
    /\ RGt(Get(ad, "impressions", Zero), RInt(1000))

\* C19: an ad with at least 100 impressions is 'critical' iff frequency > 5,
\* 'warning' iff 3 < frequency <= 5 or frequency <= 3 with a click-through
\* rate under 0.5 on more than 1000 impressions, and 'healthy' otherwise; a
\* campaign is given a severity only if its reach is over 100, and then
\* 'critical' iff frequency > 6 and 'warning' iff 4 < frequency <= 6.
SeverityByFrequencyLowCtrAndReach ==
    /\ AnReturned("analyze_creative_fatigue") =>
          \A ad \in MeasuredAds :
              LevelGiven(ad) =
                  IF LevelByFrequency(Get(ad, "frequency", Zero)) = "healthy" /\ LowCtr(ad)
                  THEN "warning"
                  ELSE LevelByFrequency(Get(ad, "frequency", Zero))
    /\ AnReturned("analyze_audience_fatigue") =>
          \A camp \in EntriesIn(anCall.campaigns) :
              SeverityGiven(camp) =
                  IF RGt(Get(camp, "reach", Zero), RInt(100))
                  THEN SeverityByFrequency(Get(camp, "frequency", Zero))
                  ELSE "none"

\* an ad shown at most three times per user is listed as fatigued for its
\* click-through rate
LowCtrWarningReached ==
    /\ AnReturned("analyze_creative_fatigue")
    /\ \E ad \in MeasuredAds :
          /\ ~RGt(Get(ad, "frequency", Zero), RInt(3))
          /\ LevelGiven(ad) = "warning"

\* the input record an entry of the top-performer or ROAS lists was made of
RecordsOf(e) ==
    IF e.level = "campaign"
    THEN { r \in EntriesIn(anCall.campaigns) : r.campaign_name = e.name }
    ELSE { r \in EntriesIn(anCall.ad_sets) : r.adset_name = e.name }

EnoughData(r) ==
    /\ ~RLt(Get(r, "clicks", Zero), RInt(5))
    /\ ~RLt(Get(r, "spend", Zero), RInt(10))

\* C20: no record with impressions < 100 is in an output list of
\* analyze_creative_fatigue; a record is left out of the top-performer and
\* ROAS outputs for lack of data exactly when clicks < 5 or spend < 10,
\* campaigns and ad sets alike.
MinimumDataFilters ==
    /\ AnReturned("analyze_creative_fatigue") =>
          /\ \A e \in EntriesIn(anResult.fatigued_ads) \cup EntriesIn(anResult.healthy_ads) :
                \A ad \in EntriesIn(anCall.ads) :
                    ad.ad_name = e.ad_name => ~RLt(Get(ad, "impressions", Zero), RInt(100))
          /\ \A e \in EntriesIn(anResult.campaign_fatigue) :
                ~RLt(e.impressions, RInt(100))
    /\ AnReturned("analyze_top_performers") =>
          /\ \A e \in EntriesIn(anResult.scale_candidates)
                      \cup EntriesIn(anResult.review_candidates) :
                \A r \in RecordsOf(e) : EnoughData(r)
          /\ \A camp \in EntriesIn(anCall.campaigns) :
                (/\ EnoughData(camp)
                 /\ RGt(Get(camp, "spend", Zero), RInt(50))
                 /\ RIsZero(Get(camp, "conversions", Zero)))
                    => \E e \in EntriesIn(anResult.review_candidates) :
                           e.name = camp.campaign_name
    /\ AnReturned("analyze_roas_opportunities") =>
          \A e \in EntriesIn(anResult.scale_opportunities)
                   \cup EntriesIn(anResult.review_opportunities) :
              \A r \in RecordsOf(e) : EnoughData(r)


-----------------------------------------------------------------------------
(* Further claims about the impact models.                                 *)

\* C26: in every bid-decrease and budget-decrease result,
\* additional_conversions_monthly is the negative of conversions_lost_monthly.
LostConversionsAreSubtractedInFull ==
    (impactCall.fn # "none" /\ "conversions_lost_monthly" \in DOMAIN impactResult) =>
        impactResult.additional_conversions_monthly
            = RNeg(impactResult.conversions_lost_monthly)

-----------------------------------------------------------------------------
(* Further claims about the aggregator.                                    *)

RECURSIVE CountOver(_, _)
\* the sum of breakdown_by_type[*].count over a set of types
CountOver(by_type, types) ==
    IF types = {} THEN 0
    ELSE LET t == CHOOSE t \in types : TRUE
         IN  by_type[t].count + CountOver(by_type, types \ {t})

RECURSIVE SavingsOver(_, _)
\* the sum of breakdown_by_type[*].monthly_savings over a set of types
SavingsOver(by_type, types) ==
    IF types = {} THEN Zero
    ELSE LET t == CHOOSE t \in types : TRUE
         IN  RAdd(by_type[t].monthly_savings, SavingsOver(by_type, types \ {t}))

PrioritiesCounted ==
    aggTotals.breakdown_by_priority.high + aggTotals.breakdown_by_priority.medium
        + aggTotals.breakdown_by_priority.low

AllPrioritiesKnown ==
    \A i \in DOMAIN aggRecs : Get(aggRecs[i], "priority", "medium") \in {"high", "medium", "low"}

\* C30: in the result of aggregate_total_benefits, automatable_count +
\* manual_count and the sum of the per-type counts are total_recommendations,
\* the per-priority counts add up to at most total_recommendations (to exactly
\* it when every priority is high, medium or low, a missing one counting as
\* medium), and the per-type monthly savings add up to total_monthly_savings.
BreakdownsAddUpToTotals ==
    AggReturned =>
        LET by_type == aggTotals.breakdown_by_type
        IN  /\ aggTotals.total_recommendations = Len(aggRecs)
            /\ aggTotals.automatable_count + aggTotals.manual_count
                   = aggTotals.total_recommendations
            /\ CountOver(by_type, DOMAIN by_type) = aggTotals.total_recommendations
            /\ PrioritiesCounted <= aggTotals.total_recommendations
            /\ AllPrioritiesKnown => PrioritiesCounted = aggTotals.total_recommendations
            /\ SavingsOver(by_type, DOMAIN by_type) = aggTotals.total_monthly_savings

\* two recommendations of two types with savings, one automatable and one not,
\* one of them with a priority that is not counted
MixedBreakdownReached ==
    /\ AggReturned
    /\ Cardinality(DOMAIN aggTotals.breakdown_by_type) = 2
    /\ aggTotals.automatable_count = 1
    /\ aggTotals.manual_count = 1
    /\ PrioritiesCounted = 1
    /\ \A t \in DOMAIN aggTotals.breakdown_by_type :
          RGt(aggTotals.breakdown_by_type[t].monthly_savings, Zero)


-----------------------------------------------------------------------------
(* The Facebook executor (apply_facebook_recommendations.py).  The ad      *)
(* account holds one campaign, one ad set of that campaign and one ad.     *)
(* Every function takes the account and the log of API calls made so far   *)
(* and returns its result dict with the account and the log it leaves.     *)
(* Names and ids are numbers; 0 is the missing name and the missing id.    *)
(* Budgets are held in cents, as the Marketing API returns them.           *)

NoId == 0

FbOut(result, account, log) == [result |-> result, account |-> account, log |-> log]

\* object.api_get(fields=...)
ApiGet(log, object) == Append(log, [op |-> "api_get", object |-> object])

\* object.api_update(params=...): the call is made; the platform applies it
\* unless it answers with an error
ApiUpdate(account, log, object, params, accepts) ==
    [account |-> IF accepts
                 THEN [account EXCEPT ![object] =
                          [k \in DOMAIN @ \cup DOMAIN params |->
                              IF k \in DOMAIN params THEN params[k] ELSE @[k]]]
                 ELSE account,
     log |-> Append(log, [op |-> "api_update", object |-> object, params |-> params])]

get_campaign_id_by_name(account, campaign_name) ==
    IF account.campaign.name = campaign_name THEN account.campaign.id ELSE NoId

get_adset_id_by_name(account, adset_name) ==
    IF account.adset.name = adset_name THEN account.adset.id ELSE NoId

get_ad_id_by_name(account, ad_name) ==
    IF account.ad.name = ad_name THEN account.ad.id ELSE NoId

\* int(x) of a non-negative number
IntOf(a) == a.n \div a.d

\* float(campaign_data.get(key)) / 100 if campaign_data.get(key) else None
CurrentBudget(campaign, key) ==
    IF Get(campaign, key, 0) # 0 THEN Rat(campaign[key], 100) ELSE None

adjust_campaign_budget(account, log, new_budget_daily, new_budget_lifetime, dry_run, accepts) ==
    LET log1 == ApiGet(log, "campaign")
        daily == IF IsNone(new_budget_daily) THEN <<>>
                 ELSE [daily_budget |-> IntOf(RMul(new_budget_daily, RInt(100)))]
        lifetime == IF IsNone(new_budget_lifetime) THEN <<>>
                    ELSE [lifetime_budget |-> IntOf(RMul(new_budget_lifetime, RInt(100)))]
        update_data == [k \in DOMAIN daily \cup DOMAIN lifetime |->
                           IF k \in DOMAIN daily THEN daily[k] ELSE lifetime[k]]
        updated == ApiUpdate(account, log1, "campaign", update_data, accepts)
    IN  IF dry_run
        THEN FbOut([success |-> TRUE, dry_run |-> TRUE, message |-> "Would update budget"],
                   account, log1)
        ELSE FbOut([success |-> accepts,
                    message |-> IF accepts THEN "Updated budget"
                                ELSE "Failed to update campaign budget"],
                   updated.account, updated.log)

\* the two-digit numbers of the string, and whether a hyphen joins the
\* first two: re.search(r'(\d{2})\s*-\s*(\d{2})'), then re.search(r'(\d{2})')
parse_age_range(segment_value) ==
    IF Len(segment_value.numbers) >= 2 /\ segment_value.hyphen
    THEN <<segment_value.numbers[1], segment_value.numbers[2]>>
    ELSE IF Len(segment_value.numbers) >= 1
         THEN <<segment_value.numbers[1], segment_value.numbers[1]>>
         ELSE <<0, 0>>

\* 'male' is a substring of 'female'
ContainsText(segment_value, text) ==
    \/ text \in segment_value.words
    \/ text = "male" /\ "female" \in segment_value.words

parse_gender(segment_value) ==
    IF ContainsText(segment_value, "male") /\ ~ContainsText(segment_value, "female")
    THEN 1
    ELSE IF ContainsText(segment_value, "female") THEN 2 ELSE 0

\* seq without the elements equal to x
Without(seq, x) == SelectSeq(seq, LAMBDA e : e # x)

InSeq(x, seq) == \E i \in 1..Len(seq) : seq[i] = x

\* dict with key k set to v
SetKey(d, k, v) == [j \in DOMAIN d \cup {k} |-> IF j = k THEN v ELSE d[j]]

\* the age part of exclude_demographic_segment: the targeting it leaves
\* and whether it recorded a change
ExcludeAge(targeting, min_age, max_age) ==
    LET current_min == Get(targeting, "age_min", 18)
        current_max == Get(targeting, "age_max", 65)
        lower_range == min_age - current_min
        upper_range == current_max - max_age
        raise_min == [targeting |-> SetKey(targeting, "age_min", max_age + 1),
                      changed |-> TRUE]
        lower_max == [targeting |-> SetKey(targeting, "age_max", min_age - 1),
                      changed |-> TRUE]
    IN  IF ~(min_age # 0 /\ max_age # 0)
        THEN [targeting |-> targeting, changed |-> FALSE]
        ELSE IF min_age = current_min /\ max_age < current_max THEN raise_min
        ELSE IF max_age = current_max /\ min_age > current_min THEN lower_max
        ELSE IF min_age > current_min /\ max_age < current_max
             THEN IF upper_range > lower_range THEN raise_min ELSE lower_max
        ELSE [targeting |-> targeting, changed |-> FALSE]

exclude_demographic_segment_last_gender(account, log, segment_value, dry_run, accepts) ==
    LET log1 == ApiGet(log, "adset")
        aged == ExcludeAge(account.adset.targeting,
                           parse_age_range(segment_value)[1],
                           parse_age_range(segment_value)[2])
        gender_to_exclude == parse_gender(segment_value)
        current_genders == Get(aged.targeting, "genders", <<1, 2>>)
        removes == gender_to_exclude # 0 /\ InSeq(gender_to_exclude, current_genders)
        targeting == IF removes
                     THEN SetKey(aged.targeting, "genders",
                                 Without(current_genders, gender_to_exclude))
                     ELSE aged.targeting
        updated == ApiUpdate(account, log1, "adset", [targeting |-> targeting], accepts)
    IN  IF ~(aged.changed \/ removes)
        THEN FbOut([success |-> FALSE, message |-> "Could not parse exclusion"],
                   account, log1)
        ELSE IF dry_run
        THEN FbOut([success |-> TRUE, dry_run |-> TRUE, message |-> "Would exclude segment"],
                   account, log1)
        ELSE IF accepts
        THEN FbOut([success |-> TRUE, message |-> "Excluded segment"],
                   updated.account, updated.log)
        ELSE FbOut([success |-> FALSE, message |-> "Failed to exclude demographic segment"],
                   updated.account, updated.log)

exclude_demographic_segment(account, log, segment_value, dry_run, accepts) ==
    LET log1 == ApiGet(log, "adset")
        aged == ExcludeAge(account.adset.targeting,
                           parse_age_range(segment_value)[1],
                           parse_age_range(segment_value)[2])
        gender_to_exclude == parse_gender(segment_value)
        current_genders == Get(aged.targeting, "genders", <<1, 2>>)
        removes == /\ gender_to_exclude # 0
                   /\ InSeq(gender_to_exclude, current_genders)
                   /\ Len(current_genders) > 1
        only_one == gender_to_exclude # 0 /\ ~removes /\ Len(current_genders) = 1
        targeting == IF removes
                     THEN SetKey(aged.targeting, "genders",
                                 Without(current_genders, gender_to_exclude))
                     ELSE aged.targeting
        updated == ApiUpdate(account, log1, "adset", [targeting |-> targeting], accepts)
    IN  IF only_one
        THEN FbOut([success |-> FALSE, message |-> "only one gender currently targeted"],
                   account, log1)
        ELSE IF ~(aged.changed \/ removes)
        THEN FbOut([success |-> FALSE, message |-> "Could not parse exclusion"],
                   account, log1)
        ELSE IF dry_run
        THEN FbOut([success |-> TRUE, dry_run |-> TRUE, message |-> "Would exclude segment"],
                   account, log1)
        ELSE IF accepts
        THEN FbOut([success |-> TRUE, message |-> "Excluded segment"],
                   updated.account, updated.log)
        ELSE FbOut([success |-> FALSE, message |-> "Failed to exclude demographic segment"],
                   updated.account, updated.log)

pause_ad(account, log, dry_run, accepts) ==
    LET log1 == ApiGet(log, "ad")
        updated == ApiUpdate(account, log1, "ad", [status |-> "PAUSED"], accepts)
    IN  IF dry_run
        THEN FbOut([success |-> TRUE, dry_run |-> TRUE, message |-> "Would pause ad"],
                   account, log1)
        ELSE FbOut([success |-> accepts,
                    message |-> IF accepts THEN "Paused ad" ELSE "Failed to pause ad"],
                   updated.account, updated.log)

pause_campaign(account, log, dry_run, accepts) ==
    LET log1 == ApiGet(log, "campaign")
        updated == ApiUpdate(account, log1, "campaign", [status |-> "PAUSED"], accepts)
    IN  IF dry_run
        THEN FbOut([success |-> TRUE, dry_run |-> TRUE, message |-> "Would pause campaign"],
                   account, log1)
        ELSE FbOut([success |-> accepts,
                    message |-> IF accepts THEN "Paused campaign"
                                ELSE "Failed to pause campaign"],
                   updated.account, updated.log)

AdvantagePlusObjectives ==
    {"OUTCOME_SALES", "OUTCOME_LEADS", "OUTCOME_AWARENESS", "OUTCOME_TRAFFIC"}

is_advantage_plus_campaign(account) ==
    Get(account.campaign, "objective", "") \in AdvantagePlusObjectives

\* campaign_id and is_advantage_plus_campaign(campaign_id), with the reads made
AdvantagePlusCheck(account, log1) ==
    [blocked |-> account.adset.campaign # NoId /\ is_advantage_plus_campaign(account),
     log |-> IF account.adset.campaign # NoId THEN ApiGet(log1, "campaign") ELSE log1]

placement_map ==
    [facebook_feed |-> <<"facebook", "feed">>,
     facebook_right_column |-> <<"facebook", "right_column">>,
     facebook_marketplace |-> <<"facebook", "marketplace">>,
     facebook_video_feeds |-> <<"facebook", "video_feeds">>,
     facebook_instant_article |-> <<"facebook", "instant_article">>,
     instagram_feed |-> <<"instagram", "stream">>,
     instagram_stories |-> <<"instagram", "story">>,
     instagram_explore |-> <<"instagram", "explore">>,
     instagram_reels |-> <<"instagram", "reels">>,
     audience_network |-> <<"audience_network", "">>,
     messenger_inbox |-> <<"messenger", "messenger_home">>,
     messenger_stories |-> <<"messenger", "story">>]

\* placement names are held lower-cased and stripped, ' - ' and ' ' as '_';
\* "" is None, whose .lower() raises
parse_placement_name(placement_name) == Get(placement_map, placement_name, <<"", "">>)

\* one of the three position branches of exclude_placement
RemovePosition(targeting, platforms, platform, position) ==
    LET key == IF platform = "facebook" THEN "facebook_positions"
               ELSE IF platform = "instagram" THEN "instagram_positions"
               ELSE "messenger_positions"
        positions == Get(targeting, key, <<>>)
        left == Without(positions, position)
    IN  IF InSeq(position, positions)
        THEN [targeting |-> SetKey(targeting, key, left),
              platforms |-> IF left = <<>> THEN Without(platforms, platform) ELSE platforms,
              changed |-> TRUE]
        ELSE [targeting |-> targeting, platforms |-> platforms, changed |-> FALSE]

PlacementChange(targeting, platform, position) ==
    LET platforms == Get(targeting, "publisher_platforms", <<"facebook", "instagram">>)
    IN  IF platform \in {"facebook", "instagram", "messenger"} /\ position # ""
        THEN RemovePosition(targeting, platforms, platform, position)
        ELSE IF platform = "audience_network" /\ InSeq("audience_network", platforms)
        THEN [targeting |-> targeting,
              platforms |-> Without(platforms, "audience_network"), changed |-> TRUE]
        ELSE [targeting |-> targeting, platforms |-> platforms, changed |-> FALSE]

exclude_placement(account, log, placement_name, dry_run, accepts) ==
    LET checked == AdvantagePlusCheck(account, ApiGet(log, "adset"))
        parsed == parse_placement_name(placement_name)
        change == PlacementChange(account.adset.targeting, parsed[1], parsed[2])
        targeting == SetKey(change.targeting, "publisher_platforms", change.platforms)
        updated == ApiUpdate(account, checked.log, "adset", [targeting |-> targeting], accepts)
    IN  IF checked.blocked
        THEN FbOut([success |-> FALSE, message |-> "Advantage+ campaign"],
                   account, checked.log)
        ELSE IF placement_name = ""
        THEN FbOut([success |-> FALSE, message |-> "Failed to exclude placement"],
                   account, checked.log)
        ELSE IF parsed[1] = ""
        THEN FbOut([success |-> FALSE, message |-> "Unknown placement format"],
                   account, checked.log)
        ELSE IF ~change.changed
        THEN FbOut([success |-> FALSE, message |-> "Placement not found or already excluded"],
                   account, checked.log)
        ELSE IF change.platforms = <<>>
        THEN FbOut([success |-> FALSE, message |-> "Keep at least one platform"],
                   account, checked.log)
        ELSE IF dry_run
        THEN FbOut([success |-> TRUE, dry_run |-> TRUE, message |-> "Would exclude placement"],
                   account, checked.log)
        ELSE IF accepts
        THEN FbOut([success |-> TRUE, message |-> "Excluded placement"],
                   updated.account, updated.log)
        ELSE FbOut([success |-> FALSE, message |-> "Failed to exclude placement"],
                   updated.account, updated.log)

\* metrics_data's geo_performance: location name to (key, type); the
\* Targeting Search fallback finds nothing for any other name
GeoIndex == [l \in {1, 2} |-> IF l = 1 THEN <<101, "region">> ELSE <<102, "country">>]

lookup_location_id(location_name) == Get(GeoIndex, location_name, <<NoId, "">>)

exclude_geo_location(account, log, location_name, dry_run, accepts) ==
    LET log1 == ApiGet(log, "adset")
        found == lookup_location_id(location_name)
        targeting0 == account.adset.targeting
        geo_locs == Get(targeting0, "geo_locations", <<>>)
        key == IF found[2] = "region" THEN "excluded_regions" ELSE "excluded_countries"
        excluded == Get(geo_locs, key, <<>>)
        targeting == SetKey(targeting0, "geo_locations",
                            SetKey(geo_locs, key, Append(excluded, found[1])))
        updated == ApiUpdate(account, log1, "adset", [targeting |-> targeting], accepts)
    IN  IF found[1] = NoId
        THEN FbOut([success |-> FALSE, message |-> "Could not find location ID"],
                   account, log1)
        ELSE IF InSeq(found[1], excluded)
        THEN FbOut([success |-> FALSE, message |-> "already excluded"], account, log1)
        ELSE IF dry_run
        THEN FbOut([success |-> TRUE, dry_run |-> TRUE, message |-> "Would exclude location"],
                   account, log1)
        ELSE IF accepts
        THEN FbOut([success |-> TRUE, message |-> "Excluded location"],
                   updated.account, updated.log)
        ELSE FbOut([success |-> FALSE, message |-> "Failed to exclude location"],
                   updated.account, updated.log)

AllDays == <<0, 1, 2, 3, 4, 5, 6>>

adjust_ad_schedule(account, log, best_hours, dry_run, accepts) ==
    LET checked == AdvantagePlusCheck(account, ApiGet(log, "adset"))
        schedule == [i \in 1..Len(best_hours) |->
                        [start_minute |-> best_hours[i] * 60,
                         end_minute |-> (best_hours[i] + 1) * 60,
                         days |-> AllDays]]
        updated == ApiUpdate(account, checked.log, "adset",
                             [adset_schedule |-> schedule], accepts)
    IN  IF checked.blocked
        THEN FbOut([success |-> FALSE, message |-> "Advantage+ campaign"],
                   account, checked.log)
        ELSE IF dry_run
        THEN FbOut([success |-> TRUE, dry_run |-> TRUE, message |-> "Would schedule ad set"],
                   account, checked.log)
        ELSE IF accepts
        THEN FbOut([success |-> TRUE, message |-> "Scheduled ad set"],
                   updated.account, updated.log)
        ELSE FbOut([success |-> FALSE, message |-> "Failed to adjust ad schedule"],
                   updated.account, updated.log)

scale_campaign_budget(account, log, scale_factor, dry_run, accepts) ==
    LET log1 == ApiGet(log, "campaign")
        current_daily == CurrentBudget(account.campaign, "daily_budget")
        current_lifetime == CurrentBudget(account.campaign, "lifetime_budget")
    IN  IF ~IsNone(current_daily)
        THEN IF dry_run
             THEN FbOut([success |-> TRUE, dry_run |-> TRUE,
                         message |-> "Would scale daily budget"], account, log1)
             ELSE adjust_campaign_budget(account, log1,
                      Round2(RMul(current_daily, scale_factor)), None, FALSE, accepts)
        ELSE IF ~IsNone(current_lifetime)
        THEN IF dry_run
             THEN FbOut([success |-> TRUE, dry_run |-> TRUE,
                         message |-> "Would scale lifetime budget"], account, log1)
             ELSE adjust_campaign_budget(account, log1,
                      None, Round2(RMul(current_lifetime, scale_factor)), FALSE, accepts)
        ELSE FbOut([success |-> FALSE, message |-> "no budget set"], account, log1)

\* day names are held lower-cased and stripped
day_map ==
    [sunday |-> 0, monday |-> 1, tuesday |-> 2, wednesday |-> 3,
     thursday |-> 4, friday |-> 5, saturday |-> 6]

WastedDayNums(wasted_day_names) ==
    {day_map[wasted_day_names[i]] :
        i \in {j \in 1..Len(wasted_day_names) : wasted_day_names[j] \in DOMAIN day_map}}

adjust_day_schedule(account, log, wasted_day_names, dry_run, accepts) ==
    LET checked == AdvantagePlusCheck(account, ApiGet(log, "adset"))
        wasted_day_nums == WastedDayNums(wasted_day_names)
        active_days == SelectSeq(AllDays, LAMBDA d : d \notin wasted_day_nums)
        schedule == << [start_minute |-> 0, end_minute |-> 1440, days |-> active_days] >>
        updated == ApiUpdate(account, checked.log, "adset",
                             [adset_schedule |-> schedule], accepts)
    IN  IF checked.blocked
        THEN FbOut([success |-> FALSE, message |-> "Advantage+ campaign"],
                   account, checked.log)
        ELSE IF wasted_day_nums = {}
        THEN FbOut([success |-> FALSE, message |-> "Could not parse wasted days"],
                   account, checked.log)
        ELSE IF active_days = <<>>
        THEN FbOut([success |-> FALSE, message |-> "Cannot exclude all days of the week"],
                   account, checked.log)
        ELSE IF dry_run
        THEN FbOut([success |-> TRUE, dry_run |-> TRUE, message |-> "Would exclude days"],
                   account, checked.log)
        ELSE IF accepts
        THEN FbOut([success |-> TRUE, message |-> "Excluded days"],
                   updated.account, updated.log)
        ELSE FbOut([success |-> FALSE, message |-> "Failed to adjust day schedule"],
                   updated.account, updated.log)

\* account.get_campaigns(...), get_ad_sets(...), get_ads(...): a read
ListEdge(log, edge) == Append(log, [op |-> "api_get", object |-> edge])

\* rec.get('adset_id'), else the ad set named rec.get('adset_name'), with the log
AdSetOfRec(account, log, rec) ==
    IF Get(rec, "adset_id", NoId) # NoId
    THEN [id |-> rec.adset_id, log |-> log]
    ELSE IF Get(rec, "adset_name", EmptyName) # EmptyName
         THEN [id |-> get_adset_id_by_name(account, rec.adset_name),
               log |-> ListEdge(log, "adsets")]
         ELSE [id |-> NoId, log |-> log]

\* the campaign named name, with the log; no lookup is made for a missing name
CampaignNamed(account, log, name) ==
    IF name # EmptyName
    THEN [id |-> get_campaign_id_by_name(account, name), log |-> ListEdge(log, "campaigns")]
    ELSE [id |-> NoId, log |-> log]

\* get_campaign_id_by_name(account, rec.get('campaign_name')): always looked up
CampaignOfRec(account, log, rec) ==
    [id |-> get_campaign_id_by_name(account, Get(rec, "campaign_name", EmptyName)),
     log |-> ListEdge(log, "campaigns")]

\* rec.get('campaign_name') or rec.get('name'), else the name in the action text
RoasCampaignName(rec, text) ==
    IF Get(rec, "campaign_name", EmptyName) # EmptyName THEN rec.campaign_name
    ELSE IF Get(rec, "name", EmptyName) # EmptyName THEN rec.name
    ELSE IF ActionHas(rec, text) THEN rec.action.name
    ELSE EmptyName

FbNotFound(account, log, message) ==
    FbOut([success |-> FALSE, message |-> message], account, log)

BudgetAdjustmentFactor == Rat(6, 5)
BudgetScalingFactor == Rat(5, 4)
RoasScalingFactor == Rat(13, 10)
RoasReviewFactor == Rat(1, 2)
GeoScalingFactor == Rat(6, 5)

ApplyBudgetAdjustment(account, log, rec, dry_run, accepts) ==
    LET found == CampaignOfRec(account, log, rec)
        log1 == ApiGet(found.log, "campaign")
        current_budget == Rat(account.campaign.daily_budget, 100)
        new_budget == RMul(current_budget, BudgetAdjustmentFactor)
    IN  IF found.id = NoId THEN FbNotFound(account, found.log, "Campaign not found")
        ELSE IF Get(account.campaign, "daily_budget", 0) # 0
        THEN adjust_campaign_budget(account, log1, new_budget, None, dry_run, accepts)
        ELSE FbNotFound(account, log1, "Campaign has no daily budget set")

ApplyToAdSet(account, log, rec, kind, dry_run, accepts) ==
    LET adset == AdSetOfRec(account, log, rec)
    IN  IF adset.id = NoId THEN FbNotFound(account, adset.log, "No ad set specified")
        ELSE CASE kind = "audience_exclusion" ->
                    IF "segment" \in DOMAIN rec
                    THEN exclude_demographic_segment(account, adset.log, rec.segment,
                                                     dry_run, accepts)
                    ELSE FbNotFound(account, ApiGet(adset.log, "adset"),
                                    "Failed to exclude demographic segment")
               [] kind = "placement_exclusion" ->
                    exclude_placement(account, adset.log, Get(rec, "placement", ""),
                                      dry_run, accepts)
               [] kind = "geo_exclusion" ->
                    exclude_geo_location(account, adset.log, Get(rec, "location", EmptyName),
                                         dry_run, accepts)
               [] kind = "schedule_adjustment" ->
                    IF Get(rec, "best_hours", <<>>) = <<>>
                    THEN FbNotFound(account, adset.log, "No peak hours specified")
                    ELSE adjust_ad_schedule(account, adset.log, rec.best_hours,
                                            dry_run, accepts)

ApplyToCampaign(account, found, operation, scale_factor, dry_run, accepts) ==
    IF found.id = NoId THEN FbNotFound(account, found.log, "Campaign not found")
    ELSE IF operation = "pause"
    THEN pause_campaign(account, found.log, dry_run, accepts)
    ELSE scale_campaign_budget(account, found.log, scale_factor, dry_run, accepts)

ApplyGeoScaling(account, log, rec, dry_run, accepts) ==
    LET named == Get(rec, "campaign_name", EmptyName) # EmptyName
        log1 == IF named THEN log ELSE ListEdge(log, "campaigns")
        campaign_name == IF named THEN rec.campaign_name
                         ELSE IF account.campaign.status = "ACTIVE"
                              THEN account.campaign.name ELSE EmptyName
    IN  ApplyToCampaign(account, CampaignNamed(account, log1, campaign_name),
                        "scale", GeoScalingFactor, dry_run, accepts)

ApplyDaySchedule(account, log, rec, dry_run, accepts) ==
    LET wasted_days == IF ActionHas(rec, "Reduce spend on ") THEN rec.action.days ELSE <<>>
        adset == AdSetOfRec(account, log, rec)
        log1 == IF adset.id = NoId THEN ListEdge(adset.log, "adsets") ELSE adset.log
        adset_id == IF adset.id # NoId THEN adset.id
                    ELSE IF account.adset.status = "ACTIVE" THEN account.adset.id ELSE NoId
    IN  IF wasted_days = <<>>
        THEN FbNotFound(account, log, "Could not parse wasted days from recommendation")
        ELSE IF adset_id = NoId
        THEN FbNotFound(account, log1, "No active ad set found")
        ELSE adjust_day_schedule(account, log1, wasted_days, dry_run, accepts)

apply_recommendation(account, log, rec, dry_run, accepts) ==
    LET rec_type == Get(rec, "type", "none")
        ad == [id |-> get_ad_id_by_name(account, Get(rec, "ad_name", EmptyName)),
               log |-> ListEdge(log, "ads")]
    IN  CASE rec_type = "budget_adjustment" ->
                 ApplyBudgetAdjustment(account, log, rec, dry_run, accepts)
          [] rec_type \in {"audience_exclusion", "placement_exclusion", "geo_exclusion",
                           "schedule_adjustment"} ->
                 ApplyToAdSet(account, log, rec, rec_type, dry_run, accepts)
          [] rec_type = "creative_refresh" ->
                 IF ad.id = NoId THEN FbNotFound(account, ad.log, "Ad not found")
                 ELSE pause_ad(account, ad.log, dry_run, accepts)
          [] rec_type = "budget_scaling" ->
                 ApplyToCampaign(account, CampaignOfRec(account, log, rec),
                                 "scale", BudgetScalingFactor, dry_run, accepts)
          [] rec_type = "campaign_review" ->
                 ApplyToCampaign(account, CampaignOfRec(account, log, rec),
                                 "pause", None, dry_run, accepts)
          [] rec_type = "roas_scaling" ->
                 ApplyToCampaign(account,
                                 CampaignNamed(account, log, RoasCampaignName(rec, "Scale ")),
                                 "scale", RoasScalingFactor, dry_run, accepts)
          [] rec_type = "roas_review" ->
                 ApplyToCampaign(account,
                                 CampaignNamed(account, log, RoasCampaignName(rec, "Review ")),
                                 "scale", RoasReviewFactor, dry_run, accepts)
          [] rec_type = "geo_scaling" -> ApplyGeoScaling(account, log, rec, dry_run, accepts)
          [] rec_type = "day_schedule" -> ApplyDaySchedule(account, log, rec, dry_run, accepts)
          [] rec_type \in {"audience_fatigue", "objective_mismatch", "creative_test",
                           "landing_page"} ->
                 FbNotFound(account, log, "MANUAL ACTION")
          [] OTHER -> FbNotFound(account, log, "Unknown recommendation type")

-----------------------------------------------------------------------------
(* One application of a recommendation to an account.  The campaign is     *)
(* named 1 and the ad set and the ad likewise; a recommendation may name   *)
(* 2, which the account does not hold, or nothing.                         *)

\* bound: daily budgets run over 0 (not set) and 1..MaxBudgetSteps steps
MaxBudgetSteps == 2

\* daily budgets in steps of 995 cents, or a lifetime budget of 50000 cents;
\* the campaign's id is 11, the ad set's 21 and the ad's 31
CampaignBudgets ==
    {[daily_budget |-> k * 995, lifetime_budget |-> 0] : k \in 1..MaxBudgetSteps}
        \cup {[daily_budget |-> 0, lifetime_budget |-> l] : l \in {0, 50000}}

AgeTargetings ==
    {<<>>, [age_min |-> 18, age_max |-> 65], [age_min |-> 25, age_max |-> 34],
     [age_min |-> 18, age_max |-> 24]}

GenderTargetings == {<<>>, [genders |-> <<1>>], [genders |-> <<2>>], [genders |-> <<1, 2>>]}

PlacementTargetings ==
    {<<>>,
     [publisher_platforms |-> <<"facebook", "instagram">>,
      facebook_positions |-> <<"feed">>, instagram_positions |-> <<"stream", "story">>],
     [publisher_platforms |-> <<"facebook">>, facebook_positions |-> <<"feed">>],
     [publisher_platforms |-> <<"audience_network">>,
      geo_locations |-> [excluded_regions |-> <<101>>]],
     [publisher_platforms |-> <<"facebook", "audience_network", "messenger">>,
      facebook_positions |-> <<"feed", "marketplace">>,
      messenger_positions |-> <<"messenger_home">>]}

\* the union of dicts with disjoint keys
Merge(a, b) == [k \in DOMAIN a \cup DOMAIN b |-> IF k \in DOMAIN a THEN a[k] ELSE b[k]]

Targetings ==
    {Merge(Merge(a, g), p) : a \in AgeTargetings, g \in GenderTargetings,
                             p \in PlacementTargetings}

Accounts ==
    {[campaign |-> [id |-> 11, name |-> 1, daily_budget |-> b.daily_budget,
                    lifetime_budget |-> b.lifetime_budget, objective |-> o,
                    status |-> st],
      adset |-> [id |-> 21, name |-> 1, campaign |-> 11, targeting |-> t,
                 adset_schedule |-> <<>>, status |-> st],
      ad |-> [id |-> 31, name |-> 1, status |-> "ACTIVE"]] :
        b \in CampaignBudgets, o \in {"OUTCOME_SALES", "LINK_CLICKS"},
        st \in {"ACTIVE", "PAUSED"}, t \in Targetings}

Segments ==
    {[words |-> {w}, numbers |-> n, hyphen |-> Len(n) = 2] :
        w \in {"male", "female", "unknown"},
        n \in {<<18, 24>>, <<25, 34>>, <<55, 64>>, <<65>>, <<>>}}

PlacementNames ==
    {"facebook_feed", "instagram_feed", "instagram_stories", "audience_network",
     "messenger_inbox", "instagram_shop", ""}

HourLists == {<<>>, <<14>>, <<14, 15>>, <<23>>}

DayLists ==
    {<<"monday">>, <<"monday", "thursday">>, <<"funday">>,
     <<"sunday", "monday", "tuesday", "wednesday", "thursday", "friday", "saturday">>}

\* how a recommendation names its ad set
AdSetRefs == {<<>>, [adset_id |-> 21], [adset_name |-> 1], [adset_name |-> 2]}

CampaignNames == {EmptyName, 1, 2}

\* what the ad-set recommendations ask for, before the ad set is named
AdSetRequests ==
    {[type |-> "audience_exclusion", segment |-> s] : s \in Segments}
        \cup {[type |-> "audience_exclusion"]}
        \cup {[type |-> "placement_exclusion", placement |-> p] : p \in PlacementNames}
        \cup {[type |-> "geo_exclusion", location |-> l] : l \in {1, 2, 3}}
        \cup {[type |-> "schedule_adjustment", best_hours |-> h] : h \in HourLists}
        \cup {[type |-> "day_schedule",
               action |-> [text |-> "Reduce spend on ", days |-> d]] : d \in DayLists}

\* every request on the ad set's id, and one request of each kind under
\* each other way of naming the ad set
AdSetRecs ==
    {Merge(q, [adset_id |-> 21]) : q \in AdSetRequests}
        \cup {Merge(q, r) : r \in AdSetRefs,
                 q \in {[type |-> "audience_exclusion",
                         segment |-> [words |-> {"male"}, numbers |-> <<18, 24>>,
                                      hyphen |-> TRUE]],
                        [type |-> "placement_exclusion", placement |-> "facebook_feed"],
                        [type |-> "geo_exclusion", location |-> 2],
                        [type |-> "schedule_adjustment", best_hours |-> <<14, 15>>],
                        [type |-> "day_schedule",
                         action |-> [text |-> "Reduce spend on ",
                                     days |-> <<"monday", "thursday">>]]}}
        \cup {[type |-> "day_schedule", action |-> [text |-> "Keep every day", days |-> <<>>]]}

BudgetActions == {"Increase budget for ", "Review overspend on "}

CampaignRecs ==
    {[type |-> "budget_adjustment", campaign_name |-> c,
      action |-> [text |-> a, name |-> c]] : c \in CampaignNames, a \in BudgetActions}
        \cup {[type |-> t, campaign_name |-> c] :
                 t \in {"budget_scaling", "campaign_review", "geo_scaling"},
                 c \in CampaignNames}
        \cup {[type |-> "roas_scaling", name |-> c, action |-> [text |-> a, name |-> n]] :
                 c \in CampaignNames, a \in {"Scale ", "Grow "}, n \in {1}}
        \cup {[type |-> "roas_review", campaign_name |-> c,
               action |-> [text |-> a, name |-> n]] :
                 c \in CampaignNames, a \in {"Review ", "Check "}, n \in {1}}

OtherRecs ==
    {[type |-> "creative_refresh", ad_name |-> n] : n \in CampaignNames}
        \cup {[type |-> t] : t \in {"audience_fatigue", "objective_mismatch",
                                    "creative_test", "landing_page", "budget_pacing"}}

FacebookRecs == AdSetRecs \cup CampaignRecs \cup OtherRecs

-----------------------------------------------------------------------------
(* The Google executor (apply_recommendations.py).  The log holds the      *)
(* client creation, the searches and the mutate operations.  accepts says  *)
(* whether the API accepts the mutations, found whether its searches find  *)
(* the object asked for.  A helper returns its result dicts and the log.   *)

LoadClient(log) == Append(log, [op |-> "load_google_ads_client"])
GaSearch(log, resource) == Append(log, [op |-> "search", resource |-> resource])
GaMutate(log, service) == Append(log, [op |-> "mutate", service |-> service])

GaOut(results, log) == [results |-> results, log |-> log, raised |-> FALSE]

\* the helpers that build one operation and submit it: pause_keyword,
\* add_negative_keyword, adjust_keyword_bid, apply_schedule_bid_adjustment,
\* apply_geo_bid_adjustment, apply_geo_exclusion
MutateOnce(log, idx, service, api) ==
    GaOut(<< [id |-> idx, success |-> api.accepts, helper |-> service] >>,
          GaMutate(log, service))

\* returns None, and result['id'] = idx raises, when the search finds no row
change_keyword_match_type(log, idx, api) ==
    LET log1 == GaSearch(log, "ad_group_criterion")
    IN  IF ~api.found
        THEN [results |-> <<>>, log |-> log1, raised |-> TRUE]
        ELSE MutateOnce(log1, idx, "change_keyword_match_type", api)

create_responsive_search_ad(log, idx, headlines, descriptions, api) ==
    IF Len(headlines) < 3 \/ Len(headlines) > 15 \/ Len(descriptions) < 2
           \/ Len(descriptions) > 4
    THEN GaOut(<< [id |-> idx, success |-> FALSE, helper |-> "validate"] >>, log)
    ELSE IF ~api.found
    THEN GaOut(<< [id |-> idx, success |-> FALSE, helper |-> "get_ad_group_id"] >>,
               GaSearch(log, "ad_group"))
    ELSE MutateOnce(GaSearch(log, "ad_group"), idx, "create_responsive_search_ad", api)

Callouts == <<"Expert Care", "Fast Relief", "Book Online 24/7", "Same Day Appointments">>

\* one asset of one campaign: mutate_assets, then mutate_campaign_assets
AddAsset(log, idx, helper, api) ==
    GaOut(<< [id |-> idx, success |-> api.accepts, helper |-> helper] >>,
          IF api.accepts THEN GaMutate(GaMutate(log, "mutate_assets"), "mutate_campaign_assets")
          ELSE GaMutate(log, "mutate_assets"))

RECURSIVE AddAssets(_, _, _, _, _)
AddAssets(log, idx, helper, n, api) ==
    IF n = 0 THEN GaOut(<<>>, log)
    ELSE LET first == AddAsset(log, idx, helper, api)
             rest == AddAssets(first.log, idx, helper, n - 1, api)
         IN  GaOut(first.results \o rest.results, rest.log)

add_callout_extensions(log, idx, campaign_ids, api) ==
    AddAssets(log, idx, "add_callout_extensions", Len(campaign_ids) * Len(Callouts), api)

add_structured_snippet_extensions(log, idx, campaign_ids, api) ==
    AddAssets(log, idx, "add_structured_snippet_extensions", Len(campaign_ids), api)

\* the same helper once for each campaign id
RECURSIVE ForEachCampaign(_, _, _, _, _)
ForEachCampaign(log, idx, service, n, api) ==
    IF n = 0 THEN GaOut(<<>>, log)
    ELSE LET first == MutateOnce(log, idx, service, api)
             rest == ForEachCampaign(first.log, idx, service, n - 1, api)
         IN  GaOut(first.results \o rest.results, rest.log)

GaFailure(log, idx, message) ==
    GaOut(<< [id |-> idx, success |-> FALSE, message |-> message] >>, log)

LOCATION_IDS ==
    [Malaysia |-> 2458, KualaLumpur |-> 1015117, Selangor |-> 1015118,
     Johor |-> 1015134, Penang |-> 1015128, Perak |-> 1015119]

\* suggested_adjustment.startswith('+') or ('-'); anything else is refused
ValidAdjustment(rec) == Get(rec, "suggested_adjustment", [sign |-> ""]).sign \in {"+", "-"}

KeywordAction(log, idx, rec, api) ==
    LET action == Get(rec, "action", "none")
        own_campaign == Get(rec, "campaign_id", NoId) # NoId
        log1 == IF own_campaign THEN log ELSE GaSearch(log, "ad_group")
        campaign_id == IF own_campaign THEN rec.campaign_id
                       ELSE IF api.found THEN 11 ELSE NoId
    IN  CASE action = "pause" -> MutateOnce(log, idx, "pause_keyword", api)
          [] action = "add_negative_keywords" ->
                 IF campaign_id = NoId
                 THEN GaFailure(log1, idx, "Could not find campaign for ad group")
                 ELSE ForEachCampaign(log1, idx, "add_negative_keyword",
                                      Len(Get(rec, "negative_keywords", <<>>)), api)
          [] action = "change_to_phrase_match" -> change_keyword_match_type(log, idx, api)
          [] OTHER -> GaOut(<<>>, log)

ScheduleBidAdjustment(log, idx, rec, api) ==
    IF Get(rec, "campaign_ids", <<>>) = <<>>
    THEN GaFailure(log, idx, "No campaign IDs specified for schedule adjustment")
    ELSE IF ~Get(rec, "time_slot", [hourly |-> FALSE]).hourly
    THEN GaFailure(log, idx, "Daily schedule adjustments not yet implemented")
    ELSE IF ~ValidAdjustment(rec)
    THEN GaFailure(log, idx, "Invalid bid adjustment format")
    ELSE ForEachCampaign(log, idx, "apply_schedule_bid_adjustment",
                         Len(rec.campaign_ids), api)

\* geo_bid_adjustment and geo_exclusion
GeoAction(log, idx, rec, service, api) ==
    IF Get(rec, "campaign_ids", <<>>) = <<>>
    THEN GaFailure(log, idx, "No campaign IDs specified")
    ELSE IF Get(rec, "location", "") \notin DOMAIN LOCATION_IDS
    THEN GaFailure(log, idx, "Unknown location")
    ELSE IF service = "apply_geo_bid_adjustment" /\ ~ValidAdjustment(rec)
    THEN GaFailure(log, idx, "Invalid bid adjustment format")
    ELSE ForEachCampaign(log, idx, service, Len(rec.campaign_ids), api)

\* the three headlines and two descriptions built from the recommendation's
AdCopy(log, idx, rec, api) ==
    create_responsive_search_ad(log, idx,
        <<rec.headline, rec.headline, rec.headline>>,
        <<rec.description, rec.description>>, api)

QualityImprovement(log, idx, rec, api) ==
    LET action == Get(rec, "action", "none")
        issue == Get(rec, "issue", "none")
        campaign_ids == Get(rec, "campaign_ids", <<>>)
        callout_results == add_callout_extensions(log, idx, campaign_ids, api)
        snippet_results == add_structured_snippet_extensions(callout_results.log, idx,
                                                             campaign_ids, api)
    IN  IF action = "improve_quality_score" /\ issue = "Expected CTR"
        THEN IF campaign_ids = <<>>
             THEN GaFailure(log, idx, "No campaign IDs available for ad extensions")
             ELSE GaOut(callout_results.results \o snippet_results.results,
                        snippet_results.log)
        ELSE IF action = "improve_quality_score"
                    /\ issue \in {"Landing Page Experience", "Ad Relevance"}
        THEN GaFailure(log, idx, "improvements require manual work")
        ELSE GaFailure(log, idx, "Unknown quality improvement action")

\* the body of the loop of apply_recommendations for one approved id
ApplyApproved(log, recs_file, idx, dry_run, api) ==
    LET rec == recs_file[idx]
        rec_type == Get(rec, "type", "none")
    IN  IF idx - 1 < 0 \/ idx - 1 >= Len(recs_file)
        THEN GaFailure(log, idx, "Invalid recommendation ID")
        ELSE IF dry_run
        THEN GaOut(<< [id |-> idx, type |-> rec_type, message |-> "DRY RUN - No changes made"] >>,
                   log)
        ELSE CASE rec_type = "keyword_action" -> KeywordAction(log, idx, rec, api)
               [] rec_type = "bid_adjustment" -> MutateOnce(log, idx, "adjust_keyword_bid", api)
               [] rec_type = "schedule_bid_adjustment" ->
                      ScheduleBidAdjustment(log, idx, rec, api)
               [] rec_type = "geo_bid_adjustment" ->
                      GeoAction(log, idx, rec, "apply_geo_bid_adjustment", api)
               [] rec_type = "ad_copy" -> AdCopy(log, idx, rec, api)
               [] rec_type = "geo_exclusion" ->
                      GeoAction(log, idx, rec, "apply_geo_exclusion", api)
               [] rec_type = "quality_improvement" -> QualityImprovement(log, idx, rec, api)
               [] OTHER -> GaFailure(log, idx, "Unknown recommendation type")

\* the loop over approved_ids from position i on; a raise ends the call
RECURSIVE ApplyFrom(_, _, _, _, _, _, _)
ApplyFrom(results, log, recs_file, approved_ids, i, dry_run, api) ==
    IF i > Len(approved_ids)
    THEN [results |-> results, log |-> log, raised |-> FALSE]
    ELSE LET one == ApplyApproved(log, recs_file, approved_ids[i], dry_run, api)
         IN  IF one.raised
             THEN [results |-> results, log |-> one.log, raised |-> TRUE]
             ELSE ApplyFrom(results \o one.results, one.log, recs_file,
                            approved_ids, i + 1, dry_run, api)

apply_recommendations_always_client(recs_file, approved_ids, dry_run, api) ==
    ApplyFrom(<<>>, LoadClient(<<>>), recs_file, approved_ids, 1, dry_run, api)

apply_recommendations(recs_file, approved_ids, dry_run, api) ==
    ApplyFrom(<<>>, IF dry_run THEN <<>> ELSE LoadClient(<<>>),
              recs_file, approved_ids, 1, dry_run, api)

-----------------------------------------------------------------------------
(* One run of either executor: apply_recommendation on a Facebook account, *)
(* or apply_recommendations on a Google recommendations file that holds    *)
(* one recommendation of every shape and a list of approved ids.           *)

\* bound: the longest list of approved ids
MaxApproved == 2

Adjustments == {[sign |-> "+", pct |-> 30], [sign |-> "-", pct |-> 35], [sign |-> ""]}

GoogleFile ==
    << [type |-> "keyword_action", action |-> "pause"],
       [type |-> "keyword_action", action |-> "add_negative"],
       [type |-> "keyword_action", action |-> "add_negative_keywords",
        campaign_id |-> 11, negative_keywords |-> <<"free", "diy">>],
       [type |-> "keyword_action", action |-> "add_negative_keywords",
        campaign_id |-> NoId, negative_keywords |-> <<"knee brace">>],
       [type |-> "keyword_action", action |-> "change_to_phrase_match"],
       [type |-> "bid_adjustment"],
       [type |-> "schedule_bid_adjustment", time_slot |-> [hourly |-> TRUE, hour |-> 23],
        suggested_adjustment |-> [sign |-> "+", pct |-> 30], campaign_ids |-> <<11, 12>>],
       [type |-> "schedule_bid_adjustment", time_slot |-> [hourly |-> FALSE],
        suggested_adjustment |-> [sign |-> "-", pct |-> 35], campaign_ids |-> <<11>>],
       [type |-> "schedule_bid_adjustment", time_slot |-> [hourly |-> TRUE, hour |-> 9],
        suggested_adjustment |-> [sign |-> ""], campaign_ids |-> <<11>>],
       [type |-> "schedule_bid_adjustment", time_slot |-> [hourly |-> TRUE, hour |-> 9],
        suggested_adjustment |-> [sign |-> "+", pct |-> 30], campaign_ids |-> <<>>],
       [type |-> "geo_bid_adjustment", location |-> "Selangor",
        suggested_adjustment |-> [sign |-> "-", pct |-> 35], campaign_ids |-> <<11>>],
       [type |-> "geo_bid_adjustment", location |-> "Atlantis",
        suggested_adjustment |-> [sign |-> "+", pct |-> 30], campaign_ids |-> <<11>>],
       [type |-> "geo_bid_adjustment", location |-> "Selangor",
        suggested_adjustment |-> [sign |-> ""], campaign_ids |-> <<11>>],
       [type |-> "geo_exclusion", location |-> "Johor", campaign_ids |-> <<11>>],
       [type |-> "geo_exclusion", location |-> "Johor", campaign_ids |-> <<>>],
       [type |-> "geo_exclusion", location |-> "Atlantis", campaign_ids |-> <<11>>],
       [type |-> "ad_copy", headline |-> 1, description |-> 1],
       [type |-> "quality_improvement", action |-> "improve_quality_score",
        issue |-> "Expected CTR", campaign_ids |-> <<11>>],
       [type |-> "quality_improvement", action |-> "improve_quality_score",
        issue |-> "Expected CTR", campaign_ids |-> <<>>],
       [type |-> "quality_improvement", action |-> "improve_quality_score",
        issue |-> "Ad Relevance", campaign_ids |-> <<11>>],
       [type |-> "quality_improvement", action |-> "review",
        issue |-> "Expected CTR", campaign_ids |-> <<11>>],
       [type |-> "budget_pacing"] >>

\* 0 and Len + 1 are the ids on either side of the file
ApprovedIds == 0..(Len(GoogleFile) + 1)

ApprovedLists == UNION {[1..n -> ApprovedIds] : n \in 0..MaxApproved}

NoAccount == [fn |-> "none"]

InitExecutors ==
    /\ IdleImpact
    /\ IdleAgg
    /\ IdleGen
    /\ IdleAnalyze
    /\ IdleReport
    /\ IdleGoogle
    /\ IdleJob
    /\ fbAccount \in Accounts \cup {NoAccount}
    /\ fbCall = [fn |-> "none"]
    /\ fbLog = <<>>
    /\ fbResult = [fn |-> "none"]

\* the Facebook executor applies one recommendation to the account
ApplyRecommendation ==
    /\ "campaign" \in DOMAIN fbAccount
    /\ fbCall.fn = "none"
    /\ \E rec \in FacebookRecs, dry_run \in BOOLEAN, accepts \in BOOLEAN :
           LET out == apply_recommendation(fbAccount, fbLog, rec, dry_run, accepts)
           IN  /\ fbCall' = [fn |-> "apply_recommendation", rec |-> rec,
                             dry_run |-> dry_run, accepts |-> accepts,
                             before |-> fbAccount]
               /\ fbAccount' = out.account
               /\ fbLog' = out.log
               /\ fbResult' = out.result
    /\ UNCHANGED <<impactVars, aggVars, genVars, anVars, reportVars, gaVars, jobVars>>

\* the Google executor applies the approved ids of the file
ApplyRecommendations ==
    /\ "campaign" \notin DOMAIN fbAccount
    /\ gaCall.fn = "none"
    /\ \E approved_ids \in ApprovedLists, dry_run \in BOOLEAN,
          accepts \in BOOLEAN, found \in BOOLEAN :
           LET out == apply_recommendations(GoogleFile, approved_ids, dry_run,
                                            [accepts |-> accepts, found |-> found])
           IN  /\ gaCall' = [fn |-> "apply_recommendations", approved_ids |-> approved_ids,
                             dry_run |-> dry_run, accepts |-> accepts, found |-> found]
               /\ gaLog' = out.log
               /\ gaResults' = [returned |-> ~out.raised,
                                results |-> IF out.raised THEN <<>> ELSE out.results]
    /\ UNCHANGED <<impactVars, aggVars, genVars, anVars, reportVars, fbVars, jobVars>>

NextExecutors == ApplyRecommendation \/ ApplyRecommendations

SpecExecutors == InitExecutors /\ [][NextExecutors]_vars


-----------------------------------------------------------------------------
(* Claims about the executors.                                             *)

FbApplied == fbCall.fn # "none"
GaApplied == gaCall.fn # "none"

\* the positions of the log at which the Facebook executor called api_update
FbUpdates == {i \in 1..Len(fbLog) : fbLog[i].op = "api_update"}

\* the recommendations of the file that the approved ids name
ApprovedRecs ==
    {GoogleFile[gaCall.approved_ids[i]] :
        i \in {j \in 1..Len(gaCall.approved_ids) :
                  gaCall.approved_ids[j] \in 1..Len(GoogleFile)}}

GaMutations == {i \in 1..Len(gaLog) : gaLog[i].op = "mutate"}

\* C21: a recommendation kind that get_automation_metadata marks as not
\* automatable never causes a mutation call when it is approved and
\* applied, on either platform.
ManualKindsNeverMutate ==
    /\ (FbApplied /\ ~get_automation_metadata(Get(fbCall.rec, "type", "none"),
                                              "facebook").is_automatable)
           => FbUpdates = {}
    /\ (GaApplied /\ \A rec \in ApprovedRecs :
                         ~get_automation_metadata(rec.type, "google").is_automatable)
           => GaMutations = {}

\* C22: with dry_run set the Facebook executor makes only reads and leaves
\* the account as it was, and the Google executor creates no client, makes
\* no call at all and returns exactly one result per approved id, in the
\* order of the ids.
DryRunChangesNothing ==
    /\ (FbApplied /\ fbCall.dry_run) =>
           /\ \A i \in 1..Len(fbLog) : fbLog[i].op = "api_get"
           /\ fbAccount = fbCall.before
    /\ (GaApplied /\ gaCall.dry_run) =>
           /\ gaLog = <<>>
           /\ gaResults.returned
           /\ Len(gaResults.results) = Len(gaCall.approved_ids)
           /\ \A i \in 1..Len(gaResults.results) :
                  gaResults.results[i].id = gaCall.approved_ids[i]

\* a dry run over two approved ids given in descending order
DryRunOfTwoIdsReached ==
    /\ GaApplied
    /\ gaCall.dry_run
    /\ Len(gaCall.approved_ids) = 2
    /\ gaCall.approved_ids[1] > gaCall.approved_ids[2]
    /\ gaCall.approved_ids[2] \in 1..Len(GoogleFile)

\* C23: outside a dry run, apply_recommendations returns, and every
\* approved id has at least one entry in the results it returns.
EveryApprovedIdHasAResult ==
    (GaApplied /\ ~gaCall.dry_run) =>
        /\ gaResults.returned
        /\ \A i \in 1..Len(gaCall.approved_ids) :
               \E j \in 1..Len(gaResults.results) :
                   gaResults.results[j].id = gaCall.approved_ids[i]

\* C24: applying a budget_adjustment recommendation whose action is
\* 'Review overspend on ...' never raises the campaign's daily budget.
OverspendReviewNeverRaisesBudget ==
    (FbApplied /\ Get(fbCall.rec, "type", "none") = "budget_adjustment"
               /\ fbCall.rec.action.text = "Review overspend on ")
        => fbAccount.campaign.daily_budget <= fbCall.before.campaign.daily_budget

\* what makes a submitted ad-set update undeliverable
Deliverable(params) ==
    /\ "targeting" \in DOMAIN params =>
           /\ Get(params.targeting, "publisher_platforms", <<"facebook", "instagram">>) # <<>>
           /\ Get(params.targeting, "genders", <<1, 2>>) # <<>>
           /\ Get(params.targeting, "age_min", 18) <= Get(params.targeting, "age_max", 65)
    /\ "adset_schedule" \in DOMAIN params =>
           \A i \in 1..Len(params.adset_schedule) : params.adset_schedule[i].days # <<>>

DeliverabilityRefusals ==
    {"Keep at least one platform", "only one gender currently targeted",
     "Cannot exclude all days of the week"}

\* C28: every ad-set update the Facebook executor submits keeps at least
\* one publisher platform, at least one gender, age_min <= age_max and at
\* least one active day; when an exclusion would break that, the result is
\* success false and api_update is not called.
SubmittedUpdatesAreDeliverable ==
    FbApplied =>
        /\ \A i \in FbUpdates :
               fbLog[i].object = "adset" => Deliverable(fbLog[i].params)
        /\ fbResult.message \in DeliverabilityRefusals =>
               ~fbResult.success /\ FbUpdates = {}

\* excluding the only targeted gender is refused although the segment's age
\* range could have been cut from the targeting
LastGenderRefusalReached ==
    /\ FbApplied
    /\ ~fbCall.dry_run
    /\ fbResult.message = "only one gender currently targeted"
    /\ Get(fbCall.rec, "type", "none") = "audience_exclusion"
    /\ ExcludeAge(fbCall.before.adset.targeting,
                  parse_age_range(fbCall.rec.segment)[1],
                  parse_age_range(fbCall.rec.segment)[2]).changed

-----------------------------------------------------------------------------
(* analyze_time_performance (analyze_facebook_insights.py).  A date is     *)
(* held as the week day strftime('%A') names, or "" when it is missing or  *)
(* does not parse; an hour label is held as its hour.                      *)

\* hourly_summary[hour][field], dow_summary[dow][field]: the sum over the
\* records of the hour or of the day
RECURSIVE SumWhere(_, _, _, _, _)
SumWhere(records, key, value, field, i) ==
    IF i > Len(records) THEN Zero
    ELSE LET rest == SumWhere(records, key, value, field, i + 1)
         IN  IF records[i][key] = value
             THEN RAdd(Get(records[i], field, Zero), rest)
             ELSE rest

\* h.get('hour', 0)
WithHour(hourly) ==
    [i \in 1..Len(hourly) |-> [k \in DOMAIN hourly[i] \cup {"hour"} |->
                                  IF k \in DOMAIN hourly[i] THEN hourly[i][k] ELSE 0]]

HourlyPerformance(hourly) ==
    [h \in 1..24 |->
        LET spend == SumWhere(WithHour(hourly), "hour", h - 1, "spend", 1)
            conversions == SumWhere(WithHour(hourly), "hour", h - 1, "conversions", 1)
        IN  [hour |-> h - 1,
             hour_label |-> h - 1,
             clicks |-> SumWhere(WithHour(hourly), "hour", h - 1, "clicks", 1),
             spend |-> Round2(spend),
             conversions |-> conversions,
             cpa |-> IF RGt(conversions, Zero) THEN Round2(RDiv(spend, conversions))
                     ELSE Zero]]

WeekDays == <<"Monday", "Tuesday", "Wednesday", "Thursday", "Friday", "Saturday", "Sunday">>

\* the records whose date is given and parses
Dated(daily) == SelectSeq(daily, LAMBDA d : Get(d, "date", "") # "")

DailyPerformance(daily) ==
    [j \in 1..Len(WeekDays) |->
        LET spend == SumWhere(Dated(daily), "date", WeekDays[j], "spend", 1)
            conversions == SumWhere(Dated(daily), "date", WeekDays[j], "conversions", 1)
        IN  [day |-> WeekDays[j],
             clicks |-> SumWhere(Dated(daily), "date", WeekDays[j], "clicks", 1),
             spend |-> Round2(spend),
             conversions |-> conversions,
             cpa |-> IF RGt(conversions, Zero) THEN Round2(RDiv(spend, conversions))
                     ELSE Zero]]

\* max(entries, key=clicks): the first of the entries with the most clicks
RECURSIVE FirstMaxClicks(_, _, _)
FirstMaxClicks(entries, i, best) ==
    IF i > Len(entries) THEN best
    ELSE FirstMaxClicks(entries, i + 1,
                        IF RGt(entries[i].clicks, best.clicks) THEN entries[i] ELSE best)

ZeroConversionSpend(entry) == RGt(entry.spend, Zero) /\ RIsZero(entry.conversions)

analyze_time_performance(time_data) ==
    LET hourly_performance == HourlyPerformance(Get(time_data, "hourly", <<>>))
        daily_performance == DailyPerformance(Get(time_data, "daily", <<>>))
        worst_hours == SelectSeq(hourly_performance, ZeroConversionSpend)
    IN  [hourly_performance |-> hourly_performance,
         daily_performance |-> daily_performance,
         best_hour |-> FirstMaxClicks(hourly_performance, 2, hourly_performance[1]),
         worst_hours |-> Take(worst_hours, 5),
         best_day |-> FirstMaxClicks(daily_performance, 2, daily_performance[1]),
         worst_days |-> SelectSeq(daily_performance, ZeroConversionSpend)]

-----------------------------------------------------------------------------
(* main of create_facebook_insights.py, followed by the dashboard's call   *)
(* of aggregate_total_benefits: the metrics file is analysed, the analyses *)
(* are handed to generate_recommendations and the list is aggregated.      *)
(* The metrics hold whole amounts, which round(x, 2) leaves as they are;   *)
(* the generator reads an entry's spend as that whole number.              *)

\* bound: the longest placement_breakdown and the longest hourly list
MaxPipelineItems == 2

PipelinePlacements ==
    {[placement_name |-> n, platform |-> n, spend |-> RInt(s), conversions |-> RInt(c)] :
        n \in {1, 2}, s \in {4, 20, 60}, c \in {0, 2}}

PipelineHours ==
    {[hour |-> h, clicks |-> RInt(k[1]), spend |-> RInt(k[2]), conversions |-> RInt(k[3])] :
        h \in {0, 9, 23}, k \in {<<9, 20, 0>>, <<5, 8, 0>>, <<5, 20, 1>>, <<0, 0, 0>>}}

\* a metrics file with placements, or one with hours
PipelineMetrics ==
    {[placement_breakdown |-> p, time_performance |-> <<>>] :
        p \in UNION {[1..n -> PipelinePlacements] : n \in 0..MaxPipelineItems}}
    \cup {[placement_breakdown |-> <<>>, time_performance |-> [hourly |-> t]] :
             t \in UNION {[1..n -> PipelineHours] : n \in 1..MaxPipelineItems}}

\* an analyzer's entry as the generator reads it
WholeSpend(entry) ==
    [k \in DOMAIN entry |-> IF k = "spend" THEN entry[k].n \div entry[k].d ELSE entry[k]]

WholeSpends(entries) == [i \in 1..Len(entries) |-> WholeSpend(entries[i])]

\* the analyses main computes from the metrics
RunAnalyses(metrics) ==
    [fn |-> "main",
     audience_analysis |->
         analyze_audience_performance(Get(metrics, "demographic_breakdown", <<>>),
                                      Get(metrics, "placement_breakdown", <<>>)),
     placement_analysis |->
         analyze_placement_efficiency(Get(metrics, "placement_breakdown", <<>>)),
     time_analysis |-> analyze_time_performance(Get(metrics, "time_performance", <<>>))]

\* the arguments main passes to generate_recommendations; the metrics hold
\* no campaigns, ad sets, ads, locations or days, so the other analyses are
\* empty
GeneratorArguments(analyses) ==
    [Analyses(<<>>, FALSE, <<>>) EXCEPT
        !.audience_analysis =
            [wasted_segments |-> WholeSpends(analyses.audience_analysis.wasted_segments)],
        !.placement_analysis =
            [placements |-> WholeSpends(analyses.placement_analysis.placements)],
        !.time_analysis =
            [best_hour |-> analyses.time_analysis.best_hour,
             worst_hours |-> WholeSpends(analyses.time_analysis.worst_hours)]]

InitPipeline ==
    /\ IdleImpact
    /\ IdleAgg
    /\ IdleGen
    /\ IdleReport
    /\ IdleFacebook
    /\ IdleGoogle
    /\ IdleJob
    /\ \E metrics \in PipelineMetrics : anCall = [fn |-> "main", metrics |-> metrics]
    /\ anResult = [fn |-> "none"]

\* main runs the analyzers on the metrics file
AnalyseMetrics ==
    /\ anCall.fn = "main"
    /\ anResult.fn = "none"
    /\ anResult' = RunAnalyses(anCall.metrics)
    /\ genInput' = GeneratorArguments(anResult')
    /\ UNCHANGED <<impactVars, aggVars, genPc, recommendations, anCall, reportVars,
                   fbVars, gaVars, jobVars>>

\* main calls generate_recommendations and saves the list
GenerateFromAnalyses ==
    /\ anResult.fn = "main"
    /\ genPc = "idle"
    /\ recommendations' = generate_recommendations(genInput)
    /\ genPc' = "returned"
    /\ UNCHANGED <<impactVars, aggVars, genInput, anVars, reportVars, fbVars, gaVars, jobVars>>

\* the dashboard aggregates the saved list at the moderate confidence level
AggregateGenerated ==
    /\ anResult.fn = "main"
    /\ genPc = "returned"
    /\ aggLevel = "none"
    /\ aggRecs' = recommendations
    /\ aggLevel' = "moderate"
    /\ aggTotals' = aggregate_total_benefits(recommendations, "moderate")
    /\ UNCHANGED <<impactVars, genVars, anVars, reportVars, fbVars, gaVars, jobVars>>

NextPipeline == AnalyseMetrics \/ GenerateFromAnalyses \/ AggregateGenerated

SpecPipeline == InitPipeline /\ [][NextPipeline]_vars

PipelineRan == anCall.fn = "main" /\ anResult.fn = "main" /\ genPc = "returned"

ScheduleRecs == SelectSeq(recommendations, LAMBDA r : r.type = "schedule_adjustment")

\* the hours of the zero-conversion worst_hours of the time analysis
WorstHourNumbers ==
    {anResult.time_analysis.worst_hours[i].hour :
        i \in 1..Len(anResult.time_analysis.worst_hours)}

\* C25: every schedule_adjustment recommendation generated from the output of
\* analyze_time_performance names a non-empty list of hours in 0..23, none of
\* which is one of the zero-conversion worst hours whose spend it redirects
PeakHoursAvoidWorstHours ==
    PipelineRan =>
        \A i \in 1..Len(ScheduleRecs) :
            LET best_hours == ScheduleRecs[i].best_hours
            IN  /\ Len(best_hours) > 0
                /\ \A j \in 1..Len(best_hours) :
                    /\ best_hours[j] \in 0..23
                    /\ best_hours[j] \notin WorstHourNumbers

\* the recommendations to remove or exclude placement name
RecsOfPlacement(name) ==
    SelectSeq(recommendations,
              LAMBDA r : \/ r.type = "placement_exclusion" /\ r.placement = name
                         \/ /\ r.type = "audience_exclusion"
                            /\ r.segment_type = "placement"
                            /\ r.segment = << name >>)

PlacementNamesOfRun ==
    {anCall.metrics.placement_breakdown[i].placement_name :
        i \in 1..Len(anCall.metrics.placement_breakdown)}

\* the monthly savings of excluding every placement record without
\* conversions, each record's spend taken once
RECURSIVE WastedOnce(_, _)
WastedOnce(placements, i) ==
    IF i > Len(placements) THEN Zero
    ELSE LET rest == WastedOnce(placements, i + 1)
         IN  IF RIsZero(placements[i].conversions)
             THEN RAdd(calculate_exclusion_impact(placements[i].spend, Zero).monthly_savings,
                       rest)
             ELSE rest

\* C27: when the same placement_breakdown feeds both analyzers, at most one
\* recommendation is generated for a placement without conversions, and
\* the aggregated total_monthly_savings counts its spend at most once
OneRecommendationPerWastedPlacement ==
    PipelineRan =>
        /\ \A name \in PlacementNamesOfRun : Len(RecsOfPlacement(name)) <= 1
        /\ aggLevel = "moderate" =>
               ~RGt(aggTotals.total_monthly_savings,
                    RMul(Rat(7, 10), WastedOnce(anCall.metrics.placement_breakdown, 1)))

-----------------------------------------------------------------------------
(* modal_cloud.py: weekly_report_job spawns generate_client_report for     *)
(* every client of clients.json, waits for each spawned call in turn and   *)
(* reports the failures.  A client is named by its place in the file; an   *)
(* id or address that is missing is 0.  Every spawned call runs to its end.*)

\* bound: the most clients in clients.json
MaxJobClients == 2

\* a client of Google Ads, one of both platforms, one of neither, and a
\* Facebook client without an email address
ClientData ==
    {[customer_id |-> 1, facebook_ad_account_id |-> 0, email |-> 1],
     [customer_id |-> 1, facebook_ad_account_id |-> 1, email |-> 1],
     [customer_id |-> 0, facebook_ad_account_id |-> 0, email |-> 1],
     [customer_id |-> 0, facebook_ad_account_id |-> 1, email |-> 0]}

ClientFiles == UNION {[1..n -> ClientData] : n \in 0..MaxJobClients}

NotSpawned == [state |-> "none"]

\* the spawn loop: one entry of results per client, a skipped one for a
\* client without email outside the testing mode
SpawnLoop(clients, testing_mode) ==
    [i \in 1..Len(clients) |->
        IF ~testing_mode /\ clients[i].email = 0
        THEN [client |-> i, status |-> "skipped"]
        ELSE [client |-> i, result |-> i]]

\* whether one platform's section of generate_client_report appends a
\* dashboard: the section is not entered without the platform's id; "late"
\* is a failure after the dashboard was appended
SectionOutcome(id, outcome) ==
    [dashboard |-> id # 0 /\ outcome \in {"ok", "late"}]

\* faulty variant: without dashboards the call returns
generate_client_report_returns_empty(client_data, google, facebook, email_sent) ==
    LET g == SectionOutcome(client_data.customer_id, google)
        f == SectionOutcome(client_data.facebook_ad_account_id, facebook)
        dashboards == (IF g.dashboard THEN {"google"} ELSE {})
                      \cup (IF f.dashboard THEN {"facebook"} ELSE {})
    IN  IF dashboards # {}
        THEN [state |-> IF email_sent THEN "returned" ELSE "raised",
              dashboards |-> dashboards, email_called |-> TRUE]
        ELSE [state |-> "returned",
              dashboards |-> dashboards, email_called |-> FALSE]

\* generate_client_report, by how its two sections and send_email_report end
generate_client_report(client_data, google, facebook, email_sent) ==
    LET g == SectionOutcome(client_data.customer_id, google)
        f == SectionOutcome(client_data.facebook_ad_account_id, facebook)
        dashboards == (IF g.dashboard THEN {"google"} ELSE {})
                      \cup (IF f.dashboard THEN {"facebook"} ELSE {})
    IN  IF dashboards # {}
        THEN [state |-> IF email_sent THEN "returned" ELSE "raised",
              dashboards |-> dashboards, email_called |-> TRUE]
        ELSE [state |-> "raised",
              dashboards |-> dashboards, email_called |-> FALSE]

SectionOutcomes == {"ok", "failed", "late"}

InitWeekly ==
    /\ IdleImpact
    /\ IdleAgg
    /\ IdleGen
    /\ IdleAnalyze
    /\ IdleReport
    /\ IdleFacebook
    /\ IdleGoogle
    /\ jobPc = "idle"
    /\ jobTesting \in BOOLEAN
    /\ jobClients \in ClientFiles
    /\ jobResults = <<>>
    /\ jobNext = 1
    /\ jobSuccesses = <<>>
    /\ jobErrors = <<>>
    /\ jobMails = {}
    /\ jobCalls = <<>>

JobFrame == UNCHANGED <<impactVars, aggVars, genVars, anVars, reportVars, fbVars, gaVars>>

\* weekly_report_job up to its wait: an empty clients.json is reported and
\* the job returns, otherwise the reports are spawned
SpawnReports ==
    /\ jobPc = "idle"
    /\ IF jobClients = <<>>
       THEN /\ jobMails' = jobMails \cup {"send_error_email"}
            /\ jobPc' = "done"
            /\ UNCHANGED <<jobResults, jobCalls>>
       ELSE /\ jobResults' = SpawnLoop(jobClients, jobTesting)
            /\ jobCalls' = [i \in 1..Len(jobClients) |->
                               IF "result" \in DOMAIN jobResults'[i]
                               THEN [state |-> "running"] ELSE NotSpawned]
            /\ jobPc' = "waiting"
            /\ UNCHANGED jobMails
    /\ UNCHANGED <<jobTesting, jobClients, jobNext, jobSuccesses, jobErrors>>
    /\ JobFrame

\* a spawned generate_client_report runs in its container
RunClientReport(i) ==
    /\ i \in DOMAIN jobCalls
    /\ jobCalls[i].state = "running"
    /\ \E google \in SectionOutcomes, facebook \in SectionOutcomes, email_sent \in BOOLEAN :
           jobCalls' = [jobCalls EXCEPT
                           ![i] = generate_client_report(jobClients[i], google, facebook,
                                                         email_sent)]
    /\ UNCHANGED <<jobPc, jobTesting, jobClients, jobResults, jobNext, jobSuccesses,
                   jobErrors, jobMails>>
    /\ JobFrame

\* faulty variant: a failed report is not caught and ends the job
AwaitItem_uncaught(item, call, successes, errors) ==
    IF "result" \notin DOMAIN item
    THEN [pc |-> "waiting", successes |-> successes, errors |-> errors]
    ELSE IF call.state = "returned"
    THEN [pc |-> "waiting", successes |-> Append(successes, item.client), errors |-> errors]
    ELSE [pc |-> "failed", successes |-> successes, errors |-> errors]

\* one round of the wait loop, once item['result'].get() has returned or raised
AwaitItem(item, call, successes, errors) ==
    IF "result" \notin DOMAIN item
    THEN [pc |-> "waiting", successes |-> successes, errors |-> errors]
    ELSE IF call.state = "returned"
    THEN [pc |-> "waiting", successes |-> Append(successes, item.client), errors |-> errors]
    ELSE [pc |-> "waiting", successes |-> successes, errors |-> Append(errors, item.client)]

\* the wait loop takes the next entry of results; get() blocks while the
\* call is running
AwaitReport ==
    /\ jobPc = "waiting"
    /\ jobNext <= Len(jobResults)
    /\ jobCalls[jobNext].state # "running"
    /\ LET round == AwaitItem(jobResults[jobNext], jobCalls[jobNext], jobSuccesses, jobErrors)
       IN  /\ jobPc' = round.pc
           /\ jobSuccesses' = round.successes
           /\ jobErrors' = round.errors
    /\ jobNext' = jobNext + 1
    /\ UNCHANGED <<jobTesting, jobClients, jobResults, jobMails, jobCalls>>
    /\ JobFrame

\* after the loop: the summary, and send_error_summary if anything failed
FinishJob ==
    /\ jobPc = "waiting"
    /\ jobNext > Len(jobResults)
    /\ jobMails' = IF jobErrors # <<>> THEN jobMails \cup {"send_error_summary"} ELSE jobMails
    /\ jobPc' = "done"
    /\ UNCHANGED <<jobTesting, jobClients, jobResults, jobNext, jobSuccesses, jobErrors,
                   jobCalls>>
    /\ JobFrame

NextWeekly ==
    \/ SpawnReports
    \/ \E i \in 1..MaxJobClients : RunClientReport(i)
    \/ AwaitReport
    \/ FinishJob

SpecWeekly == InitWeekly /\ [][NextWeekly]_vars

\* Modal runs every spawned call and the job itself until they end
FairWeekly == SpecWeekly /\ WF_vars(NextWeekly)

InSeqOf(s, x) == \E k \in 1..Len(s) : s[k] = x

CountIn(s, x) == Cardinality({k \in 1..Len(s) : s[k] = x})

WasSpawned(i) == i \in DOMAIN jobCalls /\ jobCalls[i].state # "none"

\* the client's call was awaited and the client is in exactly one list, once
Settled(i) == CountIn(jobSuccesses, i) + CountIn(jobErrors, i) = 1

\* what holds of the lists and of the calls at every moment
JobBookkeeping ==
    /\ \A i \in 1..MaxJobClients :
        /\ CountIn(jobSuccesses, i) + CountIn(jobErrors, i) <= 1
        /\ InSeqOf(jobSuccesses, i) => WasSpawned(i) /\ jobCalls[i].state = "returned"
        /\ InSeqOf(jobErrors, i) => WasSpawned(i) /\ jobCalls[i].state = "raised"
        /\ WasSpawned(i) /\ jobCalls[i].state # "running" =>
            /\ jobCalls[i].email_called <=> jobCalls[i].dashboards # {}
            /\ jobCalls[i].dashboards = {} => jobCalls[i].state = "raised"
    /\ "send_error_summary" \in jobMails => jobPc = "done" /\ jobErrors # <<>>
    /\ jobPc = "done" /\ jobErrors # <<>> => "send_error_summary" \in jobMails
    /\ jobPc = "done" => \A i \in 1..MaxJobClients : WasSpawned(i) => Settled(i)
    /\ jobPc \in {"idle", "waiting", "done"}

====
